---- MODULE Spec2Model ----
(***************************************************************************)
(* A model of the macaroon demo: three kinds of service built on           *)
(* gopkg.in/macaroon-bakery.v1.                                            *)
(*   - the user service (identity provider) discharges "is-user";          *)
(*   - the university service (role authority) authenticates its caller    *)
(*     and discharges "is-student" / "is-professor" from groups.yaml;      *)
(*   - the target service and the meetup service (student and professor    *)
(*     endpoints) are resource endpoints.                                  *)
(* A caveat string is a sequence of words ("time-before 7" is              *)
(* <<"time-before", 7>>); a signature is the number of the key that made   *)
(* it (0: made by no key any service issued); time counts minutes.         *)
(***************************************************************************)
EXTENDS Integers, Sequences, FiniteSets, TLC

\* ---------------------------------------------------------------- bounds
MaxTime == 6
MaxChanges == 2
MaxFresh == 12

\* ------------------------------------------------------ program constants
FiveMinutes == 5

usernameCaveat == "username"
studentIDCaveat == "student-id"
professorIDCaveat == "professor-id"
defaultUsername == "bob"

UserService == "user-service"
UniversityService == "university-service"
TargetService == "target-service"
MeetupService == "meetup-service"

userServiceLocation == "http://localhost:9080"
universityServiceLocation == "university-service-location"

Users == {"bob", "alice"}

VARIABLES
    now,        \* wall clock (time.Now), minutes
    userFile,   \* user.yaml: "unreadable" or the configured username
    groupsFile, \* groups.yaml: "unreadable" or [group name -> set of members]
    peers,      \* per bakery: the locations its public key ring knows
    store,      \* per bakery: macaroon id -> root key
    fresh,      \* source of new ids, keys and uuids (crypto/rand)
    run,        \* the caller's protocol run
    cred,       \* the caller's credentials for the university service
    resp,       \* the response of the request handled by the last step
    edits,      \* number of external edits of the data files so far
    ticks,      \* number of steps of the clock so far
    inflight    \* the requests being handled at the same time, each with the
                \* position of its handler

vars ==
    <<now, userFile, groupsFile, peers, store, fresh, run, cred, resp, edits, ticks,
      inflight>>

\* ------------------------------------------------------------- caveats
\* checkers.Caveat{Location, Condition}; first party caveats have Location "".
FirstParty(words) == [loc |-> "", id |-> words, vid |-> 0]

\* A third party caveat as bakery.Service.AddCaveat builds it: the id is the
\* pair (root key, condition) encrypted to the public key of `loc`, the
\* verification id holds the same root key for the minting service.
ThirdParty(loc, words, key) ==
    [loc |-> loc, id |-> [to |-> loc, key |-> key, cond |-> words], vid |-> key]

AllowCaveat(ops) == FirstParty(<<"allow">> \o ops)
DenyCaveat(ops) == FirstParty(<<"deny">> \o ops)
TimeBeforeCaveat(t) == FirstParty(<<"time-before", t>>)
DeclaredCaveat(key, value) == FirstParty(<<"declared", key, value>>)

\* checkers.NeedDeclaredCaveat: "need-declared <keys> <condition>".
NeedDeclaredWords(words, key) == <<"need-declared", key>> \o words

\* checkers.ParseCaveat: the condition is the first word, the argument the rest;
\* the empty caveat does not parse.
ParseCaveat(words) ==
    IF Len(words) = 0
    THEN [cond |-> "", arg |-> <<>>, err |-> "empty caveat"]
    ELSE [cond |-> Head(words), arg |-> Tail(words), err |-> ""]

\* A result is computed once and handed on, as Go evaluates a call once:
\* CHOOSE out \in {F(x) : x \in {v}} : TRUE is F(v) with v evaluated first.

\* Go's map lookup: the zero value "" for a missing key.
Get(m, k) == IF k \in DOMAIN m THEN m[k] ELSE ""

\* ------------------------------------------------------------ macaroons
\* macaroon.Macaroon: id, location, caveat chain and signature.  `sig` is the
\* key the chain signature was made with; `bound` is the signature of the
\* primary macaroon a discharge was bound to (Macaroon.Bind), Unbound when the
\* signature is the one the discharger made.
Unbound == -1

Macaroon(id, loc, cavs, key) ==
    [id |-> id, loc |-> loc, cavs |-> cavs, sig |-> key, bound |-> Unbound]

\* macaroon.Macaroon.Bind, done by the caller before presenting a discharge:
\* the discharge's signature is hashed with the primary's signature.
Bind(primary, d) == [d EXCEPT !.bound = primary.sig]

IsThirdParty(cav) == cav.loc # ""

\* checkers.InferDeclaredFromConditions: every first party "declared key value"
\* caveat of every macaroon of the slice; a key declared with two different
\* values is a conflict and is dropped.
CaveatPositions(ms) ==
    UNION {{<<i, j>> : j \in 1..Len(ms[i].cavs)} : i \in 1..Len(ms)}

DeclaredPairs(ms) ==
    {<<ms[p[1]].cavs[p[2]].id[2], ms[p[1]].cavs[p[2]].id[3]>> : p \in
        {q \in CaveatPositions(ms) :
            /\ ~IsThirdParty(ms[q[1]].cavs[q[2]])
            /\ Len(ms[q[1]].cavs[q[2]].id) = 3
            /\ Head(ms[q[1]].cavs[q[2]].id) = "declared"}}

DeclaredMap(pairs) ==
    [k \in {q[1] : q \in {p \in pairs : \A o \in pairs : o[1] = p[1] => o = p}} |->
        (CHOOSE p \in pairs : p[1] = k)[2]]

InferDeclared(ms) == DeclaredMap(DeclaredPairs(ms))

\* checkers.Declared.Check
DeclaredCheck(declared, arg) ==
    IF Len(arg) # 2 THEN "declared caveat has no value"
    ELSE IF arg[1] \notin DOMAIN declared THEN "declared value mismatch"
    ELSE IF declared[arg[1]] # arg[2] THEN "declared value mismatch"
    ELSE ""

\* TimeBefore without the comparison with the clock.
TimeBeforeCheckNoExpiry(t, arg) ==
    IF Len(arg) # 1 THEN "cannot parse time"
    ELSE ""

\* checkers.TimeBefore: fails unless time.Now() is before the bound
\* (!timeNow().Before(t)): at the bound itself the macaroon has expired.
TimeBeforeCheck(t, arg) ==
    IF Len(arg) # 1 THEN "cannot parse time"
    ELSE IF ~(t < arg[1]) THEN "macaroon has expired"
    ELSE ""

\* checkers.OperationChecker(op): "allow" needs op among the fields, "deny"
\* needs it absent.
InSeq(x, s) == \E i \in 1..Len(s) : s[i] = x

\* OperationChecker that lets every operation through.
OperationCheckAnyOperation(op, cond, arg) == ""

OperationCheck(op, cond, arg) ==
    IF cond = "allow"
    THEN (IF InSeq(op, arg) THEN "" ELSE "operation not allowed")
    ELSE (IF InSeq(op, arg) THEN "operation not allowed" ELSE "")

\* checkers.MultiChecker.CheckFirstPartyCaveat for the checker CheckRequest
\* builds: the inferred declarations, the handler's checker (TimeBefore, and
\* OperationChecker(op) when ctx.op is an operation), TimeBefore.
CheckParsed(ctx, p) ==
    IF p.err # "" THEN "caveat not recognized"
    ELSE IF p.cond = "declared" THEN DeclaredCheck(ctx.declared, p.arg)
    ELSE IF p.cond = "time-before" THEN TimeBeforeCheck(ctx.now, p.arg)
    ELSE IF p.cond \in {"allow", "deny"} /\ ctx.op # ""
        THEN OperationCheck(ctx.op, p.cond, p.arg)
    ELSE "caveat not recognized"

CheckFirstPartyCaveat(ctx, words) == CheckParsed(ctx, ParseCaveat(words))

\* The first discharge of `ds` whose id is the caveat's id, 0 when none.
FindDischarge(ds, cid) ==
    IF \E i \in 1..Len(ds) : ds[i].id = cid
    THEN CHOOSE i \in 1..Len(ds) :
            /\ ds[i].id = cid
            /\ \A j \in 1..(i - 1) : ds[j].id # cid
    ELSE 0

\* The signature comparison that ends macaroon.Macaroon.verify.
SignatureAfter(e, same) ==
    IF e # "" THEN e
    ELSE IF same THEN ""
    ELSE "signature mismatch after caveat verification"

\* The loop of macaroon.Macaroon.verify returns at the first caveat that
\* fails: errs[j] is the error caveat j raises when the loop reaches it.
FirstError(errs) ==
    IF \A j \in DOMAIN errs : errs[j] = "" THEN ""
    ELSE errs[CHOOSE j \in DOMAIN errs :
                /\ errs[j] # ""
                /\ \A k \in 1..(j - 1) : errs[k] = ""]

\* macaroon.Macaroon.verify for a discharge: its first party caveats go to the
\* checker in order, then its signature is compared: it must be made with the
\* caveat's key and bound to the signature of the primary macaroon as it was
\* presented (rootSig).  The discharges of this
\* system hold first party caveats only; a third party caveat in one has no
\* discharge to be found.
CheckCaveat(ctx, cav) ==
    IF IsThirdParty(cav) THEN "cannot find discharge macaroon for caveat"
    ELSE CheckFirstPartyCaveat(ctx, cav.id)

DischargeChain(d, ctx) ==
    FirstError([j \in 1..Len(d.cavs) |-> CheckCaveat(ctx, d.cavs[j])])

verifyDischarge(d, key, rootSig, ctx) ==
    CHOOSE out \in {SignatureAfter(e, d.sig = key /\ d.bound = rootSig) :
            e \in {DischargeChain(d, ctx)}} : TRUE

\* The discharge the loop takes for caveat j of m: the first one with the
\* caveat's id; 0 for a first party caveat and when there is none.
DischargeOf(m, ds, j) ==
    IF IsThirdParty(m.cavs[j]) THEN FindDischarge(ds, m.cavs[j].id) ELSE 0

\* verify passing over a third party caveat that has no discharge.
verifyCaveatOptional(m, ctx, ds, j, di) ==
    IF ~IsThirdParty(m.cavs[j]) THEN CheckFirstPartyCaveat(ctx, m.cavs[j].id)
    ELSE IF di = 0 THEN ""
    ELSE IF \E k \in 1..(j - 1) : DischargeOf(m, ds, k) = di
    THEN "discharge macaroon was used more than once"
    ELSE verifyDischarge(ds[di], m.cavs[j].vid, m.sig, ctx)

\* One caveat of the primary macaroon: a first party caveat goes to the
\* checker; a third party caveat needs the first discharge with its id, not
\* taken by a caveat before it (used[di]++), verified under the caveat's key.
verifyCaveat(m, ctx, ds, j, di) ==
    IF ~IsThirdParty(m.cavs[j]) THEN CheckFirstPartyCaveat(ctx, m.cavs[j].id)
    ELSE IF di = 0 THEN "cannot find discharge macaroon for caveat"
    ELSE IF \E k \in 1..(j - 1) : DischargeOf(m, ds, k) = di
    THEN "discharge macaroon was used more than once"
    ELSE verifyDischarge(ds[di], m.cavs[j].vid, m.sig, ctx)

\* macaroon.Macaroon.verify for the primary macaroon: the chain in order, the
\* signature last.
PrimaryChain(m, ctx, ds) ==
    FirstError([j \in 1..Len(m.cavs) |->
                    verifyCaveat(m, ctx, ds, j, DischargeOf(m, ds, j))])

verify(m, key, ctx, ds) ==
    CHOOSE out \in {SignatureAfter(e, m.sig = key) :
            e \in {PrimaryChain(m, ctx, ds)}} : TRUE

\* macaroon.Macaroon.Verify: the chain, then every discharge used exactly once.
AllUsed(e, m, ds) ==
    IF e # "" THEN e
    ELSE IF \E i \in 1..Len(ds) : \A j \in 1..Len(m.cavs) : DischargeOf(m, ds, j) # i
    THEN "discharge macaroon was not used"
    ELSE ""

Verify(m, rootKey, ctx, ds) ==
    CHOOSE out \in {AllUsed(e, m, ds) :
            e \in {verify(m, rootKey, ctx, ds)}} : TRUE

\* bakery.Service.Check: the root key comes from the service's store.
ServiceCheck(st, ms, ctx) ==
    IF Len(ms) = 0 THEN "no macaroons in slice"
    ELSE IF ms[1].id \notin DOMAIN st THEN "macaroon not found in storage"
    ELSE Verify(ms[1], st[ms[1].id], ctx, Tail(ms))

\* bakery.Service.CheckAny for one slice: the declarations inferred from the
\* slice are checked against it, and returned when the check passes.
Checked(e, declared) == [verr |-> e, attrs |-> IF e = "" THEN declared ELSE <<>>]

CheckAny(st, ms, t, op, declared) ==
    CHOOSE out \in {Checked(e, declared) :
            e \in {ServiceCheck(st, ms, [declared |-> declared, now |-> t, op |-> op])}} : TRUE

\* CheckRequest finding nothing wrong with a request that carries no macaroon.
CheckRequestNoCookies(st, ms, t, op) ==
    IF Len(ms) = 0
    THEN [verr |-> "", attrs |-> <<>>]
    ELSE CHOOSE out \in {CheckAny(st, ms, t, op, declared) :
                 declared \in {InferDeclared(ms)}} : TRUE

\* httpbakery.CheckRequest over the one macaroon slice of the request (the
\* empty sequence: no macaroon cookie).  Every failure is a
\* *bakery.VerificationError; `verr` is its reason.
CheckRequest(st, ms, t, op) ==
    IF Len(ms) = 0
    THEN [verr |-> "no macaroon cookies in request", attrs |-> <<>>]
    ELSE CHOOSE out \in {CheckAny(st, ms, t, op, declared) :
                 declared \in {InferDeclared(ms)}} : TRUE

\* ------------------------------------------------------------- minting
\* The number of third party caveats among the first i caveat specifications.
ThirdPartyCount(specs, i) ==
    Cardinality({j \in 1..i : specs[j].loc # ""})

\* bakery.Service.AddCaveat for each caveat in order: a third party caveat gets
\* its own fresh root key.
AddCaveats(specs, f) ==
    [i \in 1..Len(specs) |->
        IF specs[i].loc = ""
        THEN FirstParty(specs[i].id)
        ELSE ThirdParty(specs[i].loc, specs[i].id, f + ThirdPartyCount(specs, i))]

\* NewMacaroon keeping only the newest root key in the store.
NewMacaroonForgetting(svc, ring, st, f, specs) ==
    IF \E i \in 1..Len(specs) : specs[i].loc # "" /\ specs[i].loc \notin ring
    THEN [err |-> "cannot find public key for location", mac |-> <<>>,
          store |-> st, fresh |-> f + 2]
    ELSE [err |-> "",
          mac |-> <<Macaroon(f + 1, svc, AddCaveats(specs, f + 2), f + 2)>>,
          store |-> ((f + 1) :> (f + 2)),
          fresh |-> f + 2 + ThirdPartyCount(specs, Len(specs))]

\* NewMacaroon giving every token the id 1.
NewMacaroonSameId(svc, ring, st, f, specs) ==
    IF \E i \in 1..Len(specs) : specs[i].loc # "" /\ specs[i].loc \notin ring
    THEN [err |-> "cannot find public key for location", mac |-> <<>>,
          store |-> st, fresh |-> f + 2]
    ELSE [err |-> "",
          mac |-> <<Macaroon(1, svc, AddCaveats(specs, f + 2), f + 2)>>,
          store |-> (1 :> (f + 2)) @@ st,
          fresh |-> f + 2 + ThirdPartyCount(specs, Len(specs))]

\* bakery.Service.NewMacaroon("", nil, caveats): a fresh id and root key, the
\* root key put in the store, the caveats added.  A third party caveat needs
\* the public key of its location: a location the key ring does not know fails
\* the mint, and the root key is taken out of the store again.
NewMacaroon(svc, ring, st, f, specs) ==
    IF \E i \in 1..Len(specs) : specs[i].loc # "" /\ specs[i].loc \notin ring
    THEN [err |-> "cannot find public key for location", mac |-> <<>>,
          store |-> st, fresh |-> f + 2]
    ELSE [err |-> "",
          mac |-> <<Macaroon(f + 1, svc, AddCaveats(specs, f + 2), f + 2)>>,
          store |-> ((f + 1) :> (f + 2)) @@ st,
          fresh |-> f + 2 + ThirdPartyCount(specs, Len(specs))]

\* NeedDeclaredCaveat writing the condition before the key.
NeedDeclaredCaveatSwapped(location, condition, key) ==
    [loc |-> location, id |-> <<"need-declared", condition, key>>]

\* checkers.NeedDeclaredCaveat(checkers.Caveat{location, condition}, key)
NeedDeclaredCaveat(location, condition, key) ==
    [loc |-> location, id |-> NeedDeclaredWords(<<condition>>, key)]

\* errors.Cause(verr).(*bakery.VerificationError): every failure CheckRequest
\* reports with the in-memory store is one; only a failing store is not.
IsVerificationError(verr) == verr # "cannot get macaroon"

\* ----------------------------------------------------------- responses
\* What a resolver (checkThirdPartyCaveat) was called with and returned; `called`
\* is FALSE in the response of a request that never reached a resolver.
NoResolver ==
    [called |-> FALSE, svc |-> "", user |-> "", words |-> <<>>, cavs |-> <<>>,
     err |-> ""]

Response(code, kind) ==
    [code |-> code, kind |-> kind, user |-> "", mac |-> <<>>, verr |-> "",
     attrs |-> <<>>, msg |-> "", res |-> NoResolver]

Unchanged(st, f, r) == [resp |-> r, store |-> st, fresh |-> f]

\* The tail every check* handler shares: the requirement token is minted and
\* written in a discharge-required error, or 500 when the mint fails.
MintRequirement(n, verr) ==
    IF n.err # ""
    THEN [resp |-> [Response(500, "internal-server-error") EXCEPT !.verr = verr],
          store |-> n.store, fresh |-> n.fresh]
    ELSE [resp |-> [Response(407, "discharge-required") EXCEPT
                        !.mac = n.mac, !.verr = verr],
          store |-> n.store, fresh |-> n.fresh]

\* ---------------------------------------------------- resource endpoints
\* target-service handler.checkUser: what the handler does with the result c of
\* CheckRequest; n is the requirement token it mints when it comes to that.
targetCheckUserResult(c, path, st, f, n) ==
    IF c.verr = ""
    THEN IF path # Get(c.attrs, usernameCaveat)
         THEN Unchanged(st, f, [Response(403, "forbidden") EXCEPT !.attrs = c.attrs])
         ELSE Unchanged(st, f, [Response(200, "ok") EXCEPT
                                    !.user = path, !.attrs = c.attrs])
    ELSE IF ~IsVerificationError(c.verr)
    THEN Unchanged(st, f, [Response(403, "forbidden") EXCEPT !.verr = c.verr])
    ELSE MintRequirement(n, c.verr)

\* The caveats of the requirement token checkUser mints at time t.
targetCaveats(t) ==
    <<NeedDeclaredCaveat(userServiceLocation, "is-user", usernameCaveat),
      TimeBeforeCaveat(t + FiveMinutes)>>

targetCheckUser(ring, st, f, t, path, ms) ==
    CHOOSE out \in {targetCheckUserResult(c, path, st, f,
            NewMacaroon(TargetService, ring, st, f, targetCaveats(t))) :
            c \in {CheckRequest(st, ms, t, "")}} : TRUE

\* checkStudent without the comparison of the path username with the declared
\* one.
checkStudentResultAnyPath(c, path, st, f, n) ==
    IF c.verr = ""
    THEN Unchanged(st, f, [Response(200, "ok") EXCEPT
                                !.user = path, !.attrs = c.attrs])
    ELSE IF ~IsVerificationError(c.verr)
    THEN Unchanged(st, f, [Response(403, "forbidden") EXCEPT !.verr = c.verr])
    ELSE MintRequirement(n, c.verr)

\* meetup-service handler.checkStudent: what the handler does with the result c of
\* CheckRequest; n is the requirement token it mints when it comes to that.
checkStudentResult(c, path, st, f, n) ==
    IF c.verr = ""
    THEN IF path # Get(c.attrs, usernameCaveat)
         THEN Unchanged(st, f, [Response(403, "forbidden") EXCEPT !.attrs = c.attrs])
         ELSE Unchanged(st, f, [Response(200, "ok") EXCEPT
                                    !.user = path, !.attrs = c.attrs])
    ELSE IF ~IsVerificationError(c.verr)
    THEN Unchanged(st, f, [Response(403, "forbidden") EXCEPT !.verr = c.verr])
    ELSE MintRequirement(n, c.verr)

\* The caveats of the requirement token checkStudent mints at time t.
studentCaveats(t) ==
    <<AllowCaveat(<<"student">>),
      DenyCaveat(<<"professor">>),
      NeedDeclaredCaveat(userServiceLocation, "is-user", usernameCaveat),
      NeedDeclaredCaveat(universityServiceLocation, "is-student", studentIDCaveat),
      TimeBeforeCaveat(t + FiveMinutes)>>

checkStudent(ring, st, f, t, path, ms) ==
    CHOOSE out \in {checkStudentResult(c, path, st, f,
            NewMacaroon(MeetupService, ring, st, f, studentCaveats(t))) :
            c \in {CheckRequest(st, ms, t, "student")}} : TRUE

\* meetup-service handler.checkProfessor: what the handler does with the result c of
\* CheckRequest; n is the requirement token it mints when it comes to that.
checkProfessorResult(c, path, st, f, n) ==
    IF c.verr = ""
    THEN IF path # Get(c.attrs, usernameCaveat)
         THEN Unchanged(st, f, [Response(403, "forbidden") EXCEPT !.attrs = c.attrs])
         ELSE Unchanged(st, f, [Response(200, "ok") EXCEPT
                                    !.user = path, !.attrs = c.attrs])
    ELSE IF ~IsVerificationError(c.verr)
    THEN Unchanged(st, f, [Response(403, "forbidden") EXCEPT !.verr = c.verr])
    ELSE MintRequirement(n, c.verr)

\* The caveats of the requirement token checkProfessor mints at time t.
professorCaveats(t) ==
    <<AllowCaveat(<<"student", "professor">>),
      NeedDeclaredCaveat(userServiceLocation, "is-user", usernameCaveat),
      NeedDeclaredCaveat(universityServiceLocation, "is-professor", professorIDCaveat),
      TimeBeforeCaveat(t + FiveMinutes)>>

checkProfessor(ring, st, f, t, path, ms) ==
    CHOOSE out \in {checkProfessorResult(c, path, st, f,
            NewMacaroon(MeetupService, ring, st, f, professorCaveats(t))) :
            c \in {CheckRequest(st, ms, t, "professor")}} : TRUE

\* checkUser letting a caller through whose credentials did not verify.
universityCheckUserResultAnyone(c, st, f, n) ==
    IF usernameCaveat \notin DOMAIN c.attrs
    THEN Unchanged(st, f, [Response(200, "ok") EXCEPT !.user = "bob"])
    ELSE Unchanged(st, f, [Response(200, "ok") EXCEPT
                                !.user = c.attrs[usernameCaveat],
                                !.attrs = c.attrs])

\* university-service handler.checkUser: the caller of /discharge must present
\* a token set that declares a username; there is no path username.
universityCheckUserResult(c, st, f, n) ==
    IF c.verr = ""
    THEN IF usernameCaveat \notin DOMAIN c.attrs
         THEN Unchanged(st, f, [Response(403, "forbidden") EXCEPT !.attrs = c.attrs])
         ELSE Unchanged(st, f, [Response(200, "ok") EXCEPT
                                    !.user = c.attrs[usernameCaveat],
                                    !.attrs = c.attrs])
    ELSE IF ~IsVerificationError(c.verr)
    THEN Unchanged(st, f, [Response(403, "forbidden") EXCEPT !.verr = c.verr])
    ELSE MintRequirement(n, c.verr)

\* The caveats of the requirement token the university's checkUser mints at
\* time t.
universityCaveats(t) ==
    <<NeedDeclaredCaveat(userServiceLocation, "is-user", usernameCaveat),
      TimeBeforeCaveat(t + FiveMinutes)>>

universityCheckUser(ring, st, f, t, ms) ==
    CHOOSE out \in {universityCheckUserResult(c, st, f,
            NewMacaroon(UniversityService, ring, st, f, universityCaveats(t))) :
            c \in {CheckRequest(st, ms, t, "")}} : TRUE

\* mux routes the request to the handler of its endpoint.
Endpoints == {"target", "student", "professor"}

ServiceOf(ep) == IF ep = "target" THEN TargetService ELSE MeetupService

Handle(ep, ring, st, f, t, path, ms) ==
    IF ep = "target" THEN targetCheckUser(ring, st, f, t, path, ms)
    ELSE IF ep = "student" THEN checkStudent(ring, st, f, t, path, ms)
    ELSE checkProfessor(ring, st, f, t, path, ms)

\* helloUser / helloProfessor: the payload is written only when check* returned
\* no error; otherwise the response is the one check* wrote.
Hello(h) ==
    IF h.resp.kind # "ok" THEN h
    ELSE [h EXCEPT !.resp.kind = "payload", !.resp.msg = "Hello"]

helloUser(ep, ring, st, f, t, path, ms) ==
    CHOOSE out \in {Hello(h) :
            h \in {Handle(ep, ring, st, f, t, path, ms)}} : TRUE

\* ------------------------------------------------------------ resolvers
\* readUsername without the default.
readUsernameNoDefault(file) == file.username

\* user-service handler.readUsername: "bob" unless user.yaml can be read.
readUsername(file) ==
    IF ~file.readable THEN defaultUsername ELSE file.username

\* user-service handler.checkThirdPartyCaveat.  `req` is the request, which
\* the resolver receives and does not read.
userSwitch(req, p, file) ==
    IF p.err # ""
    THEN [cavs |-> <<>>, err |-> p.err]
    ELSE IF p.cond = "is-user"
    THEN [cavs |-> <<DeclaredCaveat(usernameCaveat, readUsername(file))>>,
          err |-> ""]
    ELSE [cavs |-> <<>>, err |-> "caveat not recognized"]

userCheckThirdPartyCaveat(req, words, file) ==
    userSwitch(req, ParseCaveat(words), file)

\* readGroups unmarshalling under a key groups.yaml does not have: no group.
readGroupsWrongKey(file) ==
    IF ~file.readable
    THEN [groups |-> <<>>, err |-> "cannot read groups.yaml"]
    ELSE [groups |-> <<>>, err |-> ""]

\* readGroups answering from the groups.yaml of start-up, whatever the file
\* holds now.
readGroupsStale(file) ==
    [groups |-> [student |-> {"bob"}, professor |-> {"alice"}], err |-> ""]

\* university-service handler.readGroups
readGroups(file) ==
    IF ~file.readable
    THEN [groups |-> <<>>, err |-> "cannot read groups.yaml"]
    ELSE [groups |-> file.groups, err |-> ""]

\* checkThirdPartyCaveat looking up the student group for is-professor too.
universitySwitchOneGroup(username, p, g, t, uuid) ==
    IF p.err # "" THEN [cavs |-> <<>>, err |-> p.err]
    ELSE IF g.err # "" THEN [cavs |-> <<>>, err |-> g.err]
    ELSE IF p.cond = "is-student"
    THEN IF "student" \notin DOMAIN g.groups
         THEN [cavs |-> <<>>, err |-> "student group not found"]
         ELSE IF username \in g.groups["student"]
         THEN [cavs |-> <<DeclaredCaveat("student-id", uuid),
                          TimeBeforeCaveat(t + FiveMinutes)>>,
               err |-> ""]
         ELSE [cavs |-> <<>>, err |-> "not a student"]
    ELSE IF p.cond = "is-professor"
    THEN IF "student" \notin DOMAIN g.groups
         THEN [cavs |-> <<>>, err |-> "professor group not found"]
         ELSE IF username \in g.groups["student"]
         THEN [cavs |-> <<DeclaredCaveat("professor-id", uuid),
                          TimeBeforeCaveat(t + FiveMinutes)>>,
               err |-> ""]
         ELSE [cavs |-> <<>>, err |-> "not a professor"]
    ELSE [cavs |-> <<>>, err |-> "caveat not recognized"]

\* university-service handler.checkThirdPartyCaveat: the caveat is parsed, the
\* groups are read, then the switch on the condition; `uuid` is the value
\* utils.MustNewUUID returns when it is called.
universitySwitch(username, p, g, t, uuid) ==
    IF p.err # "" THEN [cavs |-> <<>>, err |-> p.err]
    ELSE IF g.err # "" THEN [cavs |-> <<>>, err |-> g.err]
    ELSE IF p.cond = "is-student"
    THEN IF "student" \notin DOMAIN g.groups
         THEN [cavs |-> <<>>, err |-> "student group not found"]
         ELSE IF username \in g.groups["student"]
         THEN [cavs |-> <<DeclaredCaveat("student-id", uuid),
                          TimeBeforeCaveat(t + FiveMinutes)>>,
               err |-> ""]
         ELSE [cavs |-> <<>>, err |-> "not a student"]
    ELSE IF p.cond = "is-professor"
    THEN IF "professor" \notin DOMAIN g.groups
         THEN [cavs |-> <<>>, err |-> "professor group not found"]
         ELSE IF username \in g.groups["professor"]
         THEN [cavs |-> <<DeclaredCaveat("professor-id", uuid),
                          TimeBeforeCaveat(t + FiveMinutes)>>,
               err |-> ""]
         ELSE [cavs |-> <<>>, err |-> "not a professor"]
    ELSE [cavs |-> <<>>, err |-> "caveat not recognized"]

universityCheckThirdPartyCaveat(username, words, file, t, uuid) ==
    universitySwitch(username, ParseCaveat(words), readGroups(file), t, uuid)

\* ------------------------------------------------------------ discharge
\* bakery checkNeedDeclared: "need-declared <key> <condition>" hands the inner
\* condition to the resolver and adds an empty declaration for a required key
\* the resolver did not declare.
DeclaresKey(cavs, key) ==
    \E i \in 1..Len(cavs) :
        /\ cavs[i].loc = ""
        /\ Len(cavs[i].id) = 3
        /\ Head(cavs[i].id) = "declared"
        /\ cavs[i].id[2] = key

AddMissingDeclaration(r, key) ==
    IF r.err # "" \/ DeclaresKey(r.cavs, key) THEN r
    ELSE [r EXCEPT !.cavs = Append(@, DeclaredCaveat(key, ""))]

IsNeedDeclared(cond) == Len(cond) >= 1 /\ Head(cond) = "need-declared"

\* The words the resolver is called with for a decoded caveat condition.
ResolverWords(cond) ==
    IF IsNeedDeclared(cond)
    THEN IF Len(cond) >= 3 THEN SubSeq(cond, 3, Len(cond)) ELSE <<>>
    ELSE cond

\* Discharge minting whatever the resolver answered.
DischargedAnyway(id, q) ==
    [err |-> "", mac |-> <<Macaroon(id, "", q.cavs, id.key)>>, called |-> TRUE]

\* The macaroon bakery.Service.Discharge mints: the caveat id as its id, signed
\* with the root key the id carries, holding exactly the caveats q.cavs.
Discharged(id, q) ==
    IF q.err # ""
    THEN [err |-> q.err, mac |-> <<>>, called |-> TRUE]
    ELSE [err |-> "", mac |-> <<Macaroon(id, "", q.cavs, id.key)>>, called |-> TRUE]

\* bakery.Service.Discharge(checker, id): decode the id with the service's key,
\* call the resolver on the condition, mint.  `r` is the resolver's answer for
\* ResolverWords(id.cond).
Discharge(location, id, r) ==
    IF id.to # location
    THEN [err |-> "discharger cannot decode caveat id", mac |-> <<>>, called |-> FALSE]
    ELSE IF IsNeedDeclared(id.cond) /\ Len(id.cond) < 3
    THEN [err |-> "need-declared caveat requires an argument", mac |-> <<>>,
          called |-> FALSE]
    ELSE IF IsNeedDeclared(id.cond)
    THEN Discharged(id, AddMissingDeclaration(r, id.cond[2]))
    ELSE Discharged(id, r)

Resolved(svc, user, words, r, d) ==
    IF d.called
    THEN [called |-> TRUE, svc |-> svc, user |-> user, words |-> words,
          cavs |-> r.cavs, err |-> r.err]
    ELSE NoResolver

\* user-service handler.discharge
userDischargeResponse(words, r, d) ==
    IF d.err # ""
    THEN [Response(500, "internal-server-error") EXCEPT
            !.res = Resolved(UserService, "", words, r, d)]
    ELSE [Response(200, "macaroon") EXCEPT
            !.mac = d.mac, !.res = Resolved(UserService, "", words, r, d)]

userDischargeResolved(id, words, r) ==
    CHOOSE out \in {userDischargeResponse(words, r, d) :
            d \in {Discharge(userServiceLocation, id, r)}} : TRUE

userDischargeId(req, id, words, file) ==
    CHOOSE out \in {userDischargeResolved(id, words, r) :
            r \in {userCheckThirdPartyCaveat(req, words, file)}} : TRUE

\* discharge taking a body without an id for an id with the empty condition.
userDischargeEmptyId(req, file) ==
    IF ~req.body.parses THEN Response(400, "bad-request")
    ELSE IF req.body.id = <<>>
    THEN userDischargeId(req, [to |-> userServiceLocation, key |-> 0, cond |-> <<>>],
                         <<>>, file)
    ELSE userDischargeId(req, req.body.id[1], ResolverWords(req.body.id[1].cond), file)

userDischarge(req, file) ==
    IF ~req.body.parses THEN Response(400, "bad-request")
    ELSE IF req.body.id = <<>> THEN Response(400, "bad-request")
    ELSE userDischargeId(req, req.body.id[1], ResolverWords(req.body.id[1].cond), file)

\* university-service handler.discharge: checkUser first, then the body is
\* read (ioutil.ReadAll waits for the client to send it), then the discharge
\* for the username checkUser returned.  u is checkUser's outcome; st, f, t and
\* file are the store, the random source, the clock and groups.yaml once the
\* body has been read.
universityDischargeResponse(st, f, user, words, r, d) ==
    IF d.err # ""
    THEN Unchanged(st, IF d.called /\ r.err = "" THEN f + 1 ELSE f,
            [Response(401, "unauthorized") EXCEPT
                !.msg = d.err, !.user = user,
                !.res = Resolved(UniversityService, user, words, r, d)])
    ELSE Unchanged(st, f + 1,
            [Response(200, "macaroon") EXCEPT
                !.mac = d.mac, !.user = user,
                !.res = Resolved(UniversityService, user, words, r, d)])

universityDischargeResolved(st, f, user, id, words, r) ==
    CHOOSE out \in {universityDischargeResponse(st, f, user, words, r, d) :
            d \in {Discharge(universityServiceLocation, id, r)}} : TRUE

universityDischargeId(st, f, t, user, id, words, file) ==
    CHOOSE out \in {universityDischargeResolved(st, f, user, id, words, r) :
            r \in {universityCheckThirdPartyCaveat(user, words, file, t, f + 1)}} : TRUE

universityDischargeAs(u, st, f, t, req, file) ==
    IF u.resp.kind # "ok" THEN u
    ELSE IF ~req.body.parses THEN Unchanged(st, f, Response(400, "bad-request"))
    ELSE IF req.body.id = <<>> THEN Unchanged(st, f, Response(400, "bad-request"))
    ELSE universityDischargeId(st, f, t, u.resp.user, req.body.id[1],
                               ResolverWords(req.body.id[1].cond), file)

\* --------------------------------------------------------------- state
UnreadableUserFile == [readable |-> FALSE, username |-> ""]
UserFiles == {UnreadableUserFile} \cup {[readable |-> TRUE, username |-> u] : u \in Users}

GroupNames == {"student", "professor"}
UnreadableGroupsFile == [readable |-> FALSE, groups |-> <<>>]
GroupsFiles ==
    {UnreadableGroupsFile} \cup
    {[readable |-> TRUE, groups |-> g] :
        g \in UNION {[D -> SUBSET Users] : D \in SUBSET GroupNames}}

NoBody == [parses |-> TRUE, id |-> <<>>]
NoRequest == [ep |-> "", path |-> "", ms |-> <<>>, body |-> NoBody, at |-> 0,
              auth |-> 0,
              out |-> Response(0, "")]

NoRun == [pc |-> "NoToken", ep |-> "", path |-> "", tok |-> <<>>, pending |-> <<>>,
          got |-> <<>>, denied |-> FALSE, trail |-> <<"NoToken">>]

NoCred == [tok |-> <<>>, dis |-> <<>>]

Bakeries == {TargetService, MeetupService, UniversityService}

\* The deployment of the demo: user.yaml names bob, groups.yaml puts bob among
\* the students and alice among the professors, each key ring was filled at
\* start-up, nothing is minted yet.
Init ==
    /\ now = 0
    /\ userFile = [readable |-> TRUE, username |-> "bob"]
    /\ groupsFile = [readable |-> TRUE,
                     groups |-> [g \in GroupNames |->
                                    IF g = "student" THEN {"bob"} ELSE {"alice"}]]
    /\ peers = [s \in Bakeries |->
                   IF s = MeetupService
                   THEN {userServiceLocation, universityServiceLocation}
                   ELSE {userServiceLocation}]
    /\ store = [s \in Bakeries |-> <<>>]
    /\ fresh = 0
    /\ run = NoRun
    /\ cred = NoCred
    /\ resp = NoRequest
    /\ edits = 0
    /\ ticks = 0
    /\ inflight = <<>>

\* -------------------------------------------------------------- caller
\* The caller follows the discharge protocol: first contact, fetch every
\* pending discharge from the location its caveat names, bind, resubmit.  It
\* may also resubmit early or with a doctored token set.
Remove(s, i) == SubSeq(s, 1, i - 1) \o SubSeq(s, i + 1, Len(s))

ThirdPartyCaveats(m) == SelectSeq(m.cavs, IsThirdParty)

Step(r, pc) == [r EXCEPT !.pc = pc, !.trail = Append(@, pc)]

\* The ways to pick some of the n discharges held, kept in the order held.
Selections(n) ==
    {sel \in UNION {[1..k -> 1..n] : k \in 0..n} :
        \A i, j \in 1..Len(sel) : i < j => sel[i] < sel[j]}

AllOf(s) == [i \in 1..Len(s) |-> i]

Tampers == {"none", "flip-primary", "flip-discharge", "forge-is-user"}

\* A discharge nobody issued: made by the caller for the caveat's id, declaring
\* the username of its choice, signed with a key that is not the caveat's.
Forged(primary, cav, u) ==
    Bind(primary, Macaroon(cav.id, "", <<DeclaredCaveat(usernameCaveat, u)>>, 0))

\* The macaroon slice the caller presents: the primary token, then the chosen
\* discharges; a tamper doctors it.
Chosen(got, sel, tamper) ==
    [i \in 1..Len(sel) |->
        IF tamper = "flip-discharge" /\ i = 1
        THEN [got[sel[i]] EXCEPT !.sig = 0]
        ELSE got[sel[i]]]

Present(tok, got, sel, tamper, u) ==
    IF tamper = "flip-primary"
    THEN <<[tok[1] EXCEPT !.sig = 0]>> \o Chosen(got, sel, tamper)
    ELSE IF tamper = "forge-is-user"
    THEN <<tok[1], Forged(tok[1], ThirdPartyCaveats(tok[1])[1], u)>>
            \o Chosen(got, sel, tamper)
    ELSE <<tok[1]>> \o Chosen(got, sel, tamper)

\* A request served: the response is recorded with the request, the bakery of
\* the service keeps its new store, the random source has moved on.  `at` is
\* the time of the response, `auth` the time the handler called CheckRequest.
ServedSince(svc, ep, path, ms, body, h, t) ==
    /\ h.fresh <= MaxFresh
    /\ resp' = [ep |-> ep, path |-> path, ms |-> ms, body |-> body, at |-> now,
                auth |-> t, out |-> h.resp]
    /\ store' = [store EXCEPT ![svc] = h.store]
    /\ fresh' = h.fresh

Served(svc, ep, path, ms, body, h) == ServedSince(svc, ep, path, ms, body, h, now)

ServedByUser(ep, path, body, out) ==
    resp' = [ep |-> ep, path |-> path, ms |-> <<>>, body |-> body, at |-> now,
             auth |-> now, out |-> out]

BodyOf(cav) == [parses |-> TRUE, id |-> <<cav.id>>]

\* NoToken -> DischargeRequired: a request without credentials.
FirstContact(ep, path) ==
    /\ resp = NoRequest
    /\ inflight = <<>>
    /\ run.pc = "NoToken"
    /\ \E h \in {helloUser(ep, peers[ServiceOf(ep)], store[ServiceOf(ep)], fresh,
                            now, path, <<>>)} :
            Served(ServiceOf(ep), ep, path, <<>>, NoBody, h)
    /\ run' = IF resp'.out.kind = "discharge-required"
              THEN Step([run EXCEPT !.ep = ep, !.path = path,
                                    !.tok = resp'.out.mac], "DischargeRequired")
              ELSE Step([run EXCEPT !.ep = ep, !.path = path], "Rejected")
    /\ UNCHANGED <<inflight, now, userFile, groupsFile, peers, cred, edits, ticks>>

\* DischargeRequired -> Discharging(n pending)
StartDischarging ==
    /\ resp = NoRequest
    /\ inflight = <<>>
    /\ run.pc = "DischargeRequired"
    /\ run' = Step([run EXCEPT !.pending = ThirdPartyCaveats(run.tok[1])],
                   "Discharging")
    /\ UNCHANGED <<inflight, now, userFile, groupsFile, peers, store, fresh, cred, resp,
                   edits, ticks>>

\* The caller posts a pending caveat id to the user service.  A discharge
\* refused is the end of the fetching: the protocol has failed, and all that
\* is left to the caller is to present what it holds.
FetchFromUser(i) ==
    /\ resp = NoRequest
    /\ inflight = <<>>
    /\ run.pc = "Discharging"
    /\ ~run.denied
    /\ i \in 1..Len(run.pending)
    /\ run.pending[i].loc = userServiceLocation
    /\ \E body \in {BodyOf(run.pending[i])} :
       \E h \in {userDischarge([path |-> run.path, ms |-> <<>>, body |-> body],
                                userFile)} :
            ServedByUser("user-discharge", "", body, h)
    /\ run' = IF resp'.out.kind = "macaroon"
              THEN [run EXCEPT !.pending = Remove(@, i),
                               !.got = Append(@, Bind(run.tok[1], resp'.out.mac[1]))]
              ELSE [run EXCEPT !.denied = TRUE]
    /\ UNCHANGED <<inflight, now, userFile, groupsFile, peers, store, fresh, cred, edits, ticks>>

\* What the caller makes of the university's answer to the pending caveat id
\* i it posted: a discharge-required answer gives it the university's own
\* requirement token to authenticate with.
Fetched(i) ==
    /\ cred' = IF resp'.out.kind = "discharge-required"
               THEN [tok |-> resp'.out.mac, dis |-> <<>>]
               ELSE cred
    /\ run' = IF resp'.out.kind = "macaroon"
              THEN [run EXCEPT !.pending = Remove(@, i),
                               !.got = Append(@, Bind(run.tok[1], resp'.out.mac[1]))]
              ELSE IF resp'.out.kind = "discharge-required" THEN run
              ELSE [run EXCEPT !.denied = TRUE]

\* What it makes of the answer to a body of its own making.
Probed ==
    /\ cred' = IF resp'.out.kind = "discharge-required"
               THEN [tok |-> resp'.out.mac, dis |-> <<>>]
               ELSE cred
    /\ run' = run

\* What it makes of the answer to partial or doctored credentials: it
\* abandons the run.
ProbedCredentials ==
    /\ run' = Step(run, "Abandoned")
    /\ cred' = cred

CallerReads(by, i) ==
    IF by = "fetch" THEN Fetched(i)
    ELSE IF by = "probe" THEN Probed
    ELSE ProbedCredentials

\* The university's discharge handler after checkUser returned a username: it
\* waits in ioutil.ReadAll for the body of the request.  `at` is the time
\* checkUser ran; `by` and `i` are the caller's note of what it asked.
AwaitingBody(ms, body, u, by, i) ==
    [pc |-> "authenticated",
     req |-> [ep |-> "university-discharge", path |-> "", ms |-> ms, body |-> body],
     out |-> u.resp, at |-> now, by |-> by, i |-> i]

\* A request reaches the university's /discharge: checkUser answers it (a
\* requirement token, 403), or returns the username and the handler goes on to
\* read the body.
UniversityReceives(ms, body, by, i) ==
    \E u \in {universityCheckUser(peers[UniversityService],
                    store[UniversityService], fresh, now, ms)} :
        IF u.resp.kind = "ok"
        THEN /\ inflight' = <<AwaitingBody(ms, body, u, by, i)>>
             /\ UNCHANGED <<resp, store, fresh, run, cred>>
        ELSE /\ Served(UniversityService, "university-discharge", "", ms, body, u)
             /\ CallerReads(by, i)
             /\ UNCHANGED inflight

\* The body has arrived: the handler discharges for the username checkUser
\* returned, with the clock and the groups.yaml of this moment.
UniversityDischarges ==
    /\ inflight # <<>>
    /\ \E w \in {inflight[1]} :
        /\ \E h \in {universityDischargeAs(
                        Unchanged(store[UniversityService], fresh, w.out),
                        store[UniversityService], fresh, now, w.req, groupsFile)} :
                ServedSince(UniversityService, "university-discharge", "",
                            w.req.ms, w.req.body, h, w.at)
        /\ CallerReads(w.by, w.i)
    /\ inflight' = <<>>
    /\ UNCHANGED <<now, userFile, groupsFile, peers, edits, ticks>>

\* The caller posts a pending caveat id to the university service, presenting
\* the credentials it holds for that service.
FetchFromUniversity(i) ==
    /\ resp = NoRequest
    /\ inflight = <<>>
    /\ run.pc = "Discharging"
    /\ ~run.denied
    /\ i \in 1..Len(run.pending)
    /\ run.pending[i].loc = universityServiceLocation
    /\ UniversityReceives(cred.tok \o cred.dis, BodyOf(run.pending[i]), "fetch", i)
    /\ UNCHANGED <<now, userFile, groupsFile, peers, edits, ticks>>

\* The caller has the user service discharge the is-user caveat of the
\* university's requirement token.
Authenticate ==
    /\ resp = NoRequest
    /\ inflight = <<>>
    /\ run.pc = "Discharging"
    /\ ~run.denied
    /\ cred.tok # <<>>
    /\ cred.dis = <<>>
    /\ \E body \in {BodyOf(ThirdPartyCaveats(cred.tok[1])[1])} :
       \E h \in {userDischarge([path |-> "", ms |-> <<>>, body |-> body],
                                userFile)} :
            ServedByUser("user-discharge", "", body, h)
    /\ cred' = IF resp'.out.kind = "macaroon"
               THEN [cred EXCEPT !.dis = <<Bind(cred.tok[1], resp'.out.mac[1])>>]
               ELSE cred
    /\ UNCHANGED <<inflight, now, userFile, groupsFile, peers, store, fresh, run, edits, ticks>>

\* Discharging -> Ready: every pending discharge obtained and bound.
BecomeReady ==
    /\ resp = NoRequest
    /\ inflight = <<>>
    /\ run.pc = "Discharging"
    /\ ~run.denied
    /\ run.pending = <<>>
    /\ run' = Step(run, "Ready")
    /\ UNCHANGED <<inflight, now, userFile, groupsFile, peers, store, fresh, cred, resp,
                   edits, ticks>>

\* Ready -> Verified | Rejected: the token set goes back to the endpoint that
\* asked for it.  A caller that does not wait for Ready (it resubmits while
\* discharges are pending), leaves discharges out or doctors the set resubmits
\* too.
Resubmit(sel, tamper) ==
    /\ resp = NoRequest
    /\ inflight = <<>>
    /\ run.pc \in {"DischargeRequired", "Discharging", "Ready"}
    /\ run.pc = "Discharging" => run.pending # <<>>
    /\ tamper # "none" => sel = AllOf(run.got)
    /\ run.denied => (sel = AllOf(run.got) /\ tamper = "none")
    /\ \E ms \in {Present(run.tok, run.got, sel, tamper, run.path)} :
       \E h \in {helloUser(run.ep, peers[ServiceOf(run.ep)],
                            store[ServiceOf(run.ep)], fresh, now, run.path, ms)} :
            Served(ServiceOf(run.ep), run.ep, run.path, ms, NoBody, h)
    /\ run' = IF resp'.out.kind = "payload" THEN Step(run, "Verified")
              ELSE Step(run, "Rejected")
    /\ UNCHANGED <<inflight, now, userFile, groupsFile, peers, cred, edits, ticks>>

\* A request off the protocol: the token set goes to another endpoint or names
\* another path.  The caller abandons the run.
Probe(ep, path, tamper) ==
    /\ resp = NoRequest
    /\ inflight = <<>>
    /\ run.pc = "Ready"
    /\ <<ep, path>> # <<run.ep, run.path>>
    /\ \E ms \in {Present(run.tok, run.got, AllOf(run.got), tamper, path)} :
       \E h \in {helloUser(ep, peers[ServiceOf(ep)], store[ServiceOf(ep)], fresh,
                            now, path, ms)} :
            Served(ServiceOf(ep), ep, path, ms, NoBody, h)
    /\ run' = Step(run, "Abandoned")
    /\ UNCHANGED <<inflight, now, userFile, groupsFile, peers, cred, edits, ticks>>

\* Caveat ids a caller can make itself: anyone may encrypt a condition and a
\* key of its own to a service's public key.
ProbeConditions ==
    {<<>>, <<"is-user">>, <<"is-student">>, <<"is-professor">>, <<"is-admin">>,
     <<"need-declared", usernameCaveat, "is-admin">>,
     <<"need-declared", usernameCaveat>>}

\* The bodies posted to the /discharge of the service at location own: one
\* that does not parse, one without an id, an id made for each condition, and
\* an id made for the other discharger.
ProbeBodies(own, other) ==
    {[parses |-> FALSE, id |-> <<>>], NoBody,
     [parses |-> TRUE, id |-> <<[to |-> other, key |-> 0, cond |-> <<"is-user">>]>>]}
    \cup {[parses |-> TRUE, id |-> <<[to |-> own, key |-> 0, cond |-> c]>>] :
            c \in ProbeConditions}

\* Any body posted to the user service's /discharge.
ProbeUserDischarge(body) ==
    /\ resp = NoRequest
    /\ inflight = <<>>
    /\ run.pc = "Discharging"
    /\ ~run.denied
    /\ run.got = <<>>
    /\ cred = NoCred
    /\ ticks = 0
    /\ \E h \in {userDischarge([path |-> run.path, ms |-> <<>>, body |-> body],
                                userFile)} :
            ServedByUser("user-discharge", "", body, h)
    /\ UNCHANGED <<inflight, now, userFile, groupsFile, peers, store, fresh, run, cred,
                   edits, ticks>>

\* Any body posted to the university service's /discharge by a caller that
\* holds credentials for it, or none yet.
ProbeUniversityDischarge(body) ==
    /\ resp = NoRequest
    /\ inflight = <<>>
    /\ run.pc = "Discharging"
    /\ ~run.denied
    /\ run.got = <<>>
    /\ cred.dis # <<>> \/ cred = NoCred
    /\ UniversityReceives(cred.tok \o cred.dis, body, "probe", 0)
    /\ UNCHANGED <<now, userFile, groupsFile, peers, edits, ticks>>

\* A pending caveat id posted to the university service's /discharge with
\* partial or doctored credentials.  The caller abandons the run.
ProbeUniversityCredentials(i, sel, tamper) ==
    /\ resp = NoRequest
    /\ inflight = <<>>
    /\ run.pc = "Discharging"
    /\ ~run.denied
    /\ i \in 1..Len(run.pending)
    /\ run.pending[i].loc = universityServiceLocation
    /\ cred.tok # <<>>
    /\ tamper # "none" => sel = AllOf(cred.dis)
    /\ UniversityReceives(Present(cred.tok, cred.dis, sel, tamper, run.path),
                          BodyOf(run.pending[i]), "credentials", i)
    /\ UNCHANGED <<now, userFile, groupsFile, peers, edits, ticks>>

\* The caller has read the response and goes on with the run; the response
\* that ended a run stays on record.
Consume ==
    /\ resp # NoRequest
    /\ run.pc \notin {"Verified", "Rejected", "Abandoned"}
    /\ resp' = NoRequest
    /\ UNCHANGED <<inflight, now, userFile, groupsFile, peers, store, fresh, run, cred,
                   edits, ticks>>

\* ---------------------------------------------------------- environment
\* The clock moves on: by a minute, to the last minute of a validity window,
\* or by the length of the window.  Only
\* handlers read the clock and the data files, so a change commutes with the
\* caller's own steps: it is taken while the caller is between two requests
\* of the discharging phase, which every run passes through, or while the
\* university's discharge handler waits for the body of a request.
Tick(d) ==
    /\ resp = NoRequest
    /\ run.pc = "Discharging"
    /\ ~run.denied
    /\ now + d <= MaxTime
    /\ ticks + edits < MaxChanges
    /\ now' = now + d
    /\ ticks' = ticks + 1
    /\ UNCHANGED <<inflight, userFile, groupsFile, peers, store, fresh, run, cred, resp, edits>>

\* user.yaml and groups.yaml are maintained outside the services.
EditUserFile(file) ==
    /\ resp = NoRequest
    /\ run.pc = "Discharging"
    /\ ~run.denied
    /\ ticks + edits < MaxChanges
    /\ file # userFile
    /\ userFile' = file
    /\ edits' = edits + 1
    /\ UNCHANGED <<inflight, now, groupsFile, peers, store, fresh, run, cred, resp, ticks>>

\* One edit of groups.yaml: the file becomes unreadable, a group is dropped,
\* a member is added to or removed from a group.
GroupsEdits(file) ==
    IF ~file.readable THEN {}
    ELSE {UnreadableGroupsFile} \cup
         {[file EXCEPT !.groups = [h \in DOMAIN file.groups \ {g} |-> file.groups[h]]] :
            g \in DOMAIN file.groups} \cup
         {[file EXCEPT !.groups[g] = file.groups[g] \cup {u}] :
            g \in DOMAIN file.groups, u \in Users} \cup
         {[file EXCEPT !.groups[g] = file.groups[g] \ {u}] :
            g \in DOMAIN file.groups, u \in Users}

EditGroupsFile(file) ==
    /\ resp = NoRequest
    /\ run.pc = "Discharging"
    /\ ~run.denied
    /\ ticks + edits < MaxChanges
    /\ file # groupsFile
    /\ groupsFile' = file
    /\ edits' = edits + 1
    /\ UNCHANGED <<inflight, now, userFile, peers, store, fresh, run, cred, resp, ticks>>

Next ==
    \/ \E ep \in Endpoints, path \in Users : FirstContact(ep, path)
    \/ StartDischarging
    \/ \E i \in 1..2 : FetchFromUser(i)
    \/ \E i \in 1..2 : FetchFromUniversity(i)
    \/ UniversityDischarges
    \/ Authenticate
    \/ BecomeReady
    \/ \E sel \in Selections(Len(run.got)), tamper \in Tampers :
            Resubmit(sel, tamper)
    \/ \E ep \in Endpoints, path \in Users, tamper \in {"none", "forge-is-user"} :
            Probe(ep, path, tamper)
    \/ \E body \in ProbeBodies(userServiceLocation, universityServiceLocation) :
            ProbeUserDischarge(body)
    \/ \E body \in ProbeBodies(universityServiceLocation, userServiceLocation) :
            ProbeUniversityDischarge(body)
    \/ \E i \in 1..2, sel \in Selections(Len(cred.dis)), tamper \in Tampers :
            ProbeUniversityCredentials(i, sel, tamper)
    \/ Consume
    \/ \E d \in {1, FiveMinutes - 1, FiveMinutes} : Tick(d)
    \/ \E file \in UserFiles : EditUserFile(file)
    \/ \E file \in GroupsEdits(groupsFile) : EditGroupsFile(file)

Spec == Init /\ [][Next]_vars

\* ------------------------------------------------- the resolvers alone
\* The two checkThirdPartyCaveat functions applied once to every input: every
\* state of user.yaml and groups.yaml, every time, every username and request,
\* every condition of ResolverConditions.
ResolverConditions ==
    {<<"is-user">>, <<"is-student">>, <<"is-professor">>, <<"is-admin">>,
     <<"is-user", "alice">>, <<"is-student", "alice">>, <<"declared", "username">>,
     <<"need-declared", "username", "is-user">>, <<>>}

ResolverUsernames == Users \cup {""}

ResolverInit ==
    /\ now \in 0..MaxTime
    /\ userFile \in UserFiles
    /\ groupsFile \in GroupsFiles
    /\ peers = [s \in Bakeries |-> {userServiceLocation}]
    /\ store = [s \in Bakeries |-> <<>>]
    /\ fresh = 0
    /\ run = NoRun
    /\ cred = NoCred
    /\ resp = NoRequest
    /\ edits = 0
    /\ ticks = 0
    /\ inflight = <<>>

ResolverAnswer(svc, user, words, r) ==
    [Response(0, "resolved") EXCEPT
        !.res = [called |-> TRUE, svc |-> svc, user |-> user, words |-> words,
                 cavs |-> r.cavs, err |-> r.err]]

ResolveUser(path, body, words) ==
    /\ resp = NoRequest
    /\ resp' = [ep |-> "user-resolver", path |-> path, ms |-> <<>>, body |-> body,
                at |-> now, auth |-> now,
                out |-> ResolverAnswer(UserService, "", words,
                            userCheckThirdPartyCaveat(
                                [path |-> path, ms |-> <<>>, body |-> body],
                                words, userFile))]
    /\ UNCHANGED <<inflight, now, userFile, groupsFile, peers, store, fresh, run, cred,
                   edits, ticks>>

ResolveUniversity(username, words) ==
    /\ resp = NoRequest
    /\ resp' = [ep |-> "university-resolver", path |-> "", ms |-> <<>>,
                body |-> NoBody, at |-> now, auth |-> now,
                out |-> ResolverAnswer(UniversityService, username, words,
                            universityCheckThirdPartyCaveat(
                                username, words, groupsFile, now, fresh + 1))]
    /\ fresh' = IF resp'.out.res.err = "" THEN fresh + 1 ELSE fresh
    /\ UNCHANGED <<inflight, now, userFile, groupsFile, peers, store, run, cred, edits, ticks>>

ResolverNext ==
    \/ \E path \in Users, body \in {NoBody, [parses |-> FALSE, id |-> <<>>]},
          words \in ResolverConditions :
            ResolveUser(path, body, words)
    \/ \E username \in ResolverUsernames, words \in ResolverConditions :
            ResolveUniversity(username, words)

ResolverSpec == ResolverInit /\ [][ResolverNext]_vars

\* ------------------------------------------------------ the honest run
\* A caller that follows the protocol to the letter, in the deployment of
\* Init, while no validity window closes: each of its steps, and each service
\* answering, is scheduled fairly.
HonestFetchFromUniversity(i) ==
    /\ cred.tok = <<>> \/ cred.dis # <<>>
    /\ FetchFromUniversity(i)

HonestResubmit ==
    /\ run.pc = "Ready"
    /\ Resubmit(AllOf(run.got), "none")

LiveTick ==
    /\ resp = NoRequest
    /\ run.pc \notin {"Verified", "Rejected", "Abandoned"}
    /\ now + 1 < FiveMinutes
    /\ now' = now + 1
    /\ UNCHANGED <<inflight, userFile, groupsFile, peers, store, fresh, run, cred, resp,
                   edits, ticks>>

\* The next step of the protocol: the caller is one sequential client, and each
\* of its steps is a request that the service addressed answers.
HonestStep ==
    \/ StartDischarging
    \/ \E i \in 1..2 : FetchFromUser(i)
    \/ \E i \in 1..2 : HonestFetchFromUniversity(i)
    \/ UniversityDischarges
    \/ Authenticate
    \/ BecomeReady
    \/ HonestResubmit
    \/ Consume

LiveNext ==
    \/ \E ep \in Endpoints, path \in Users : FirstContact(ep, path)
    \/ HonestStep
    \/ LiveTick

\* The caller keeps going and every service answers: a protocol step that stays
\* possible is eventually taken.  The clock is under no obligation.
LiveSpec == Init /\ [][LiveNext]_vars /\ WF_vars(HonestStep)

\* ------------------------------------------- requests handled concurrently
\* net/http runs each request's handler in a goroutine of its own.  Handlers
\* share the bakery of their service (its root key store is written by
\* NewMacaroon and read by CheckRequest, each under the store's own mutex), the
\* random source and the data files; they take no lock themselves.  A handler's
\* steps are its calls on shared state: CheckRequest, then NewMacaroon or the
\* resolver.
\*
\* The tokens in circulation when the concurrent requests arrive: a caller
\* went through the protocol for the student endpoint as bob, at time 0.
DemoUserFile == [readable |-> TRUE, username |-> "bob"]

DemoGroupsFile ==
    [readable |-> TRUE,
     groups |-> [g \in GroupNames |-> IF g = "student" THEN {"bob"} ELSE {"alice"}]]

EmptyGroupsFile == [readable |-> TRUE, groups |-> [g \in GroupNames |-> {}]]

DemoPeers ==
    [s \in Bakeries |->
        IF s = MeetupService THEN {userServiceLocation, universityServiceLocation}
        ELSE {userServiceLocation}]

EarlierContact ==
    helloUser("student", DemoPeers[MeetupService], <<>>, 0, 0, "bob", <<>>)

EarlierToken == EarlierContact.resp.mac[1]

EarlierIsUser ==
    Bind(EarlierToken,
         userDischarge([path |-> "", ms |-> <<>>,
                        body |-> BodyOf(ThirdPartyCaveats(EarlierToken)[1])],
                       DemoUserFile).mac[1])

EarlierChallenge ==
    universityCheckUser(DemoPeers[UniversityService], <<>>, EarlierContact.fresh, 0,
                        <<>>)

EarlierCredential == EarlierChallenge.resp.mac[1]

EarlierCredentials ==
    <<EarlierCredential,
      Bind(EarlierCredential,
           userDischarge([path |-> "", ms |-> <<>>,
                          body |-> BodyOf(ThirdPartyCaveats(EarlierCredential)[1])],
                         DemoUserFile).mac[1])>>

EarlierAuthentication ==
    universityCheckUser(DemoPeers[UniversityService], EarlierChallenge.store,
                        EarlierChallenge.fresh, 0, EarlierCredentials)

EarlierDischarge ==
    universityDischargeAs(EarlierAuthentication, EarlierChallenge.store,
        EarlierChallenge.fresh, 0,
        [path |-> "", ms |-> EarlierCredentials,
         body |-> BodyOf(ThirdPartyCaveats(EarlierToken)[2])],
        DemoGroupsFile)

EarlierStudentSet ==
    <<EarlierToken, EarlierIsUser, Bind(EarlierToken, EarlierDischarge.resp.mac[1])>>

EarlierStore ==
    [s \in Bakeries |->
        IF s = MeetupService THEN EarlierContact.store
        ELSE IF s = UniversityService THEN EarlierDischarge.store
        ELSE <<>>]

EarlierFresh == EarlierDischarge.fresh

\* The requests that arrive together.
ConcurrentRequests ==
    {[ep |-> "student", path |-> "bob", ms |-> EarlierStudentSet, body |-> NoBody],
     [ep |-> "student", path |-> "alice", ms |-> EarlierStudentSet, body |-> NoBody],
     [ep |-> "student", path |-> "bob", ms |-> SubSeq(EarlierStudentSet, 1, 2),
      body |-> NoBody],
     [ep |-> "student", path |-> "bob", ms |-> <<>>, body |-> NoBody],
     [ep |-> "professor", path |-> "alice", ms |-> <<>>, body |-> NoBody],
     [ep |-> "target", path |-> "bob", ms |-> <<>>, body |-> NoBody],
     [ep |-> "university-discharge", path |-> "", ms |-> EarlierCredentials,
      body |-> BodyOf(ThirdPartyCaveats(EarlierToken)[2])],
     [ep |-> "university-discharge", path |-> "", ms |-> EarlierCredentials,
      body |-> NoBody],
     [ep |-> "university-discharge", path |-> "", ms |-> <<>>,
      body |-> BodyOf(ThirdPartyCaveats(EarlierToken)[2])]}

NoCheck == [attrs |-> <<>>, verr |-> ""]

Arrived(req) == [pc |-> "received", req |-> req, c |-> NoCheck, out |-> Response(0, "")]

ConcurrentInit ==
    /\ now \in {0, 1, FiveMinutes, MaxTime}
    /\ userFile = DemoUserFile
    /\ groupsFile \in {DemoGroupsFile, EmptyGroupsFile, UnreadableGroupsFile}
    /\ peers = DemoPeers
    /\ store = EarlierStore
    /\ fresh = EarlierFresh
    /\ run = NoRun
    /\ cred = NoCred
    /\ resp = NoRequest
    /\ edits = 0
    /\ ticks = 0
    /\ \E a, b \in ConcurrentRequests :
        /\ a # b
        /\ inflight = <<Arrived(a), Arrived(b)>>

HandlerService(ep) ==
    IF ep = "university-discharge" THEN UniversityService ELSE ServiceOf(ep)

HandlerOperation(ep) ==
    IF ep \in {"student", "professor"} THEN ep ELSE ""

\* The handler of request p calls CheckRequest.
CheckStep(p) ==
    /\ inflight[p].pc = "received"
    /\ \E c \in {CheckRequest(store[HandlerService(inflight[p].req.ep)],
                              inflight[p].req.ms, now,
                              HandlerOperation(inflight[p].req.ep))} :
            inflight' = [inflight EXCEPT ![p].pc = "checked", ![p].c = c]
    /\ UNCHANGED <<now, userFile, groupsFile, peers, store, fresh, run, cred, resp,
                   edits, ticks>>

\* What a resource endpoint's check* does with the result c of CheckRequest.
ResultOf(ep, c, path, ring, st, f, t) ==
    IF ep = "target"
    THEN targetCheckUserResult(c, path, st, f,
            NewMacaroon(TargetService, ring, st, f, targetCaveats(t)))
    ELSE IF ep = "student"
    THEN checkStudentResult(c, path, st, f,
            NewMacaroon(MeetupService, ring, st, f, studentCaveats(t)))
    ELSE checkProfessorResult(c, path, st, f,
            NewMacaroon(MeetupService, ring, st, f, professorCaveats(t)))

Answered(p, svc, h) ==
    /\ inflight' = [inflight EXCEPT ![p].pc = "done", ![p].out = h.resp]
    /\ store' = [store EXCEPT ![svc] = h.store]
    /\ fresh' = h.fresh

\* The handler of a resource endpoint goes on after CheckRequest: the payload,
\* 403, or a requirement token minted and sent.
FinishStep(p) ==
    /\ inflight[p].pc = "checked"
    /\ inflight[p].req.ep \in Endpoints
    /\ \E ep \in {inflight[p].req.ep} :
       \E h \in {Hello(ResultOf(ep, inflight[p].c, inflight[p].req.path,
                                peers[ServiceOf(ep)], store[ServiceOf(ep)],
                                fresh, now))} :
            Answered(p, ServiceOf(ep), h)
    /\ UNCHANGED <<now, userFile, groupsFile, peers, run, cred, resp, edits, ticks>>

\* The university's discharge handler goes on after CheckRequest: checkUser
\* returns the username, or has answered already.
AuthenticateStep(p) ==
    /\ inflight[p].pc = "checked"
    /\ inflight[p].req.ep = "university-discharge"
    /\ \E u \in {universityCheckUserResult(inflight[p].c, store[UniversityService],
                    fresh,
                    NewMacaroon(UniversityService, peers[UniversityService],
                                store[UniversityService], fresh,
                                universityCaveats(now)))} :
            IF u.resp.kind = "ok"
            THEN /\ inflight' = [inflight EXCEPT ![p].pc = "authenticated",
                                                  ![p].out = u.resp]
                 /\ UNCHANGED <<store, fresh>>
            ELSE Answered(p, UniversityService, u)
    /\ UNCHANGED <<now, userFile, groupsFile, peers, run, cred, resp, edits, ticks>>

\* The university's discharge handler reads the body and discharges for the
\* username checkUser returned.
DischargeStep(p) ==
    /\ inflight[p].pc = "authenticated"
    /\ \E h \in {universityDischargeAs(
                    Unchanged(store[UniversityService], fresh, inflight[p].out),
                    store[UniversityService], fresh, now, inflight[p].req,
                    groupsFile)} :
            Answered(p, UniversityService, h)
    /\ UNCHANGED <<now, userFile, groupsFile, peers, run, cred, resp, edits, ticks>>

HandlerStep(p) ==
    \/ CheckStep(p)
    \/ FinishStep(p)
    \/ AuthenticateStep(p)
    \/ DischargeStep(p)

ConcurrentNext == \E p \in 1..2 : HandlerStep(p)

ConcurrentSpec == ConcurrentInit /\ [][ConcurrentNext]_vars

\* ================================================================ claims
\* What the bakery of the endpoint's service makes of a recorded request, on
\* its own: the verification the endpoint's handler asks for, at time t.
OperationOf(ep) == IF ep = "target" THEN "" ELSE ep

VerificationAt(r, st, t) ==
    CheckRequest(st[ServiceOf(r.ep)], r.ms, t, OperationOf(r.ep))

\* ---- C1
PathMatches(r, c) == c.verr = "" /\ r.path = Get(c.attrs, usernameCaveat)

PathDiffers(r, c) == c.verr = "" /\ r.path # Get(c.attrs, usernameCaveat)

PayloadStep(r, c) ==
    /\ r.out.kind = "payload" => PathMatches(r, c)
    /\ PathDiffers(r, c) =>
        /\ r.out.code = 403
        /\ r.out.kind = "forbidden"
        /\ r.out.mac = <<>>
        /\ store' = store
        /\ fresh' = fresh

\* C1: at every resource endpoint (target checkUser, meetup checkStudent and
\* checkProfessor) the payload is returned only if the verification of the
\* presented token set succeeded and the path username equals the declared
\* username; when the verification succeeded and the two differ, the response
\* is 403 forbidden, nothing is minted (store and random source unchanged) and
\* the response is not a discharge-required response.
PayloadOnlyForDeclaredUser ==
    [][(resp' # resp /\ resp'.ep \in Endpoints) =>
            PayloadStep(resp', VerificationAt(resp', store, now))]_vars

\* A verified token set whose declared username is not the one of the path
\* was answered 403.
UsernameMismatchForbidden ==
    /\ resp.ep \in Endpoints
    /\ PathDiffers(resp, VerificationAt(resp, store, resp.at))
    /\ resp.out.kind = "forbidden"

\* ---- C2
\* A token set that holds a signature no key of a service made.
Tampered(ms) == \E i \in 1..Len(ms) : ms[i].sig = 0

\* C2: a resource endpoint presented a token whose signature is invalid, or a
\* discharge signed with the wrong key, ends in a terminal signature-invalid
\* rejection: it never returns the payload and never answers discharge-required
\* with a freshly minted requirement token.
TamperedIsTerminal ==
    (resp.ep \in Endpoints /\ Tampered(resp.ms)) =>
        /\ resp.out.kind # "payload"
        /\ resp.out.kind # "discharge-required"

\* ---- C3
Presented(d) == \E j \in 2..Len(resp.ms) : resp.ms[j] = d

IssuedAndPresented(cav) ==
    \E i \in 1..Len(run.got) : run.got[i].id = cav.id /\ Presented(run.got[i])

BothDischarges(cavs) ==
    /\ Len(cavs) = 2
    /\ cavs[1].loc = userServiceLocation
    /\ cavs[2].loc = universityServiceLocation
    /\ \A k \in 1..2 : IssuedAndPresented(cavs[k])

\* C3: no partial grants.  A run started from a requirement token of the
\* student endpoint is Verified only if both pending discharges (is-user from
\* the user service, is-student from the university service) were issued and
\* presented; a run in which a discharge request was refused (denial or caveat
\* not recognized) is never Verified.
NoPartialGrants ==
    /\ (run.ep = "student" /\ run.pc = "Verified") =>
            BothDischarges(ThirdPartyCaveats(run.tok[1]))
    /\ run.denied => run.pc # "Verified"

\* A student run that was Verified.
StudentRunVerified ==
    /\ run.ep = "student"
    /\ run.pc = "Verified"
    /\ resp.out.kind = "payload"
    /\ Len(resp.ms) = 3

\* ---- C4
\* C4: a request without credentials at a resource endpoint never yields the
\* payload; the endpoint mints a requirement token (its root key is in the
\* store of the service) and answers discharge-required with it, and a run is
\* Verified only after DischargeRequired, Discharging and Ready, in that order.
FirstContactMints ==
    /\ (resp.ep \in Endpoints /\ resp.ms = <<>>) =>
        /\ resp.out.kind = "discharge-required"
        /\ Len(resp.out.mac) = 1
        /\ resp.out.mac[1].id \in DOMAIN store[ServiceOf(resp.ep)]
    /\ run.pc = "Verified" =>
        run.trail = <<"NoToken", "DischargeRequired", "Discharging", "Ready",
                      "Verified">>

\* The answer to a first contact: discharge-required, with the token the run
\* goes on with.
FirstContactAnswered ==
    /\ resp.ep \in Endpoints
    /\ resp.ms = <<>>
    /\ resp.out.kind = "discharge-required"
    /\ run.pc = "DischargeRequired"
    /\ run.tok = resp.out.mac

\* ---- C5
StudentRunOfBob == run.ep = "student" /\ run.path = "bob"

VerifiedAsBob ==
    /\ StudentRunOfBob
    /\ run.pc = "Verified"
    /\ resp.out.kind = "payload"
    /\ Get(resp.out.attrs, usernameCaveat) = "bob"
    /\ studentIDCaveat \in DOMAIN resp.out.attrs

\* C5: end-to-end progress.  With bob configured in user.yaml and bob among the
\* students, a caller that obtains and binds both discharges and resubmits
\* before a time-before bound elapses is, under fair scheduling of the caller
\* and the three services, eventually Verified at the student endpoint with
\* path bob, the declared facts being username = bob and a student-id.
StudentEventuallyVerified ==
    (StudentRunOfBob /\ run.pc = "DischargeRequired") ~> VerifiedAsBob

\* bob's run at the student endpoint ended Verified, username and student-id
\* declared, within the validity window of its token.
BobVerifiedInTime ==
    /\ VerifiedAsBob
    /\ resp.at > 0
    /\ resp.at < FiveMinutes

\* ---- C6
IsTimeBefore(cav) ==
    /\ ~IsThirdParty(cav)
    /\ Len(cav.id) = 2
    /\ Head(cav.id) = "time-before"

\* Every time-before bound of the token set is after t / one is before t.
AllBoundsAfter(ms, t) ==
    \A i \in 1..Len(ms) : \A j \in 1..Len(ms[i].cavs) :
        IsTimeBefore(ms[i].cavs[j]) => ms[i].cavs[j].id[2] > t

SomeBoundBefore(ms, t) ==
    \E i \in 1..Len(ms) : \E j \in 1..Len(ms[i].cavs) :
        IsTimeBefore(ms[i].cavs[j]) /\ ms[i].cavs[j].id[2] < t

\* Every caveat other than the time-before ones is satisfied: the token set
\* verifies at time 0, before every bound a service ever wrote.
OtherwiseSatisfied(r) ==
    /\ r.ep \in Endpoints
    /\ r.ms # <<>>
    /\ VerificationAt(r, store, 0).verr = ""

\* C6: expiry boundary.  For a token set in which every other caveat is
\* satisfied, the endpoint evaluating at time `at` accepts it (no verification
\* error: the payload, or 403 when the path names another user) when each
\* time-before bound is after `at`, and reports "macaroon has expired", never
\* the payload, when a bound is before `at`.
ExpiryBoundary ==
    OtherwiseSatisfied(resp) =>
        /\ AllBoundsAfter(resp.ms, resp.at) =>
            /\ resp.out.verr = ""
            /\ resp.out.kind \in {"payload", "forbidden"}
            /\ resp.path = Get(resp.out.attrs, usernameCaveat) =>
                    resp.out.kind = "payload"
        /\ SomeBoundBefore(resp.ms, resp.at) =>
            /\ resp.out.verr = "macaroon has expired"
            /\ resp.out.kind # "payload"

\* A complete student token set presented after the bound of its requirement
\* token was reported expired.
ExpiredAfterBound ==
    /\ resp.ep = "student"
    /\ Len(resp.ms) = 3
    /\ OtherwiseSatisfied(resp)
    /\ SomeBoundBefore(resp.ms, resp.at)
    /\ resp.out.verr = "macaroon has expired"

\* ---- C7
IsNeedDeclaredCaveat(cav, location, condition, key) ==
    /\ cav.loc = location
    /\ cav.id.to = location
    /\ cav.id.cond = <<"need-declared", key, condition>>

StudentRequirement == resp.ep = "student" /\ resp.out.kind = "discharge-required"

\* C7 (as stated): the requirement token the student endpoint mints after a
\* failed verification has exactly the chain need-declared(user service,
\* is-user, username), need-declared(university service, is-student,
\* student-id), time-before(mint time + 5 minutes), and no other caveat.
StudentChainIsThreeCaveats ==
    StudentRequirement =>
        /\ Len(resp.out.mac[1].cavs) = 3
        /\ IsNeedDeclaredCaveat(resp.out.mac[1].cavs[1], userServiceLocation,
                                "is-user", usernameCaveat)
        /\ IsNeedDeclaredCaveat(resp.out.mac[1].cavs[2], universityServiceLocation,
                                "is-student", studentIDCaveat)
        /\ resp.out.mac[1].cavs[3] = TimeBeforeCaveat(resp.at + FiveMinutes)

\* C7 (amended): the chain is allow(student), deny(professor), then the two
\* need-declared caveats and time-before(mint time + 5 minutes), in that order,
\* with no other caveat.
StudentChainIsFiveCaveats ==
    StudentRequirement =>
        /\ Len(resp.out.mac[1].cavs) = 5
        /\ resp.out.mac[1].cavs[1] = AllowCaveat(<<"student">>)
        /\ resp.out.mac[1].cavs[2] = DenyCaveat(<<"professor">>)
        /\ IsNeedDeclaredCaveat(resp.out.mac[1].cavs[3], userServiceLocation,
                                "is-user", usernameCaveat)
        /\ IsNeedDeclaredCaveat(resp.out.mac[1].cavs[4], universityServiceLocation,
                                "is-student", studentIDCaveat)
        /\ resp.out.mac[1].cavs[5] = TimeBeforeCaveat(resp.at + FiveMinutes)

\* The student endpoint minted a requirement token after the verification of
\* a presented token set failed.
StudentRequirementAfterFailure ==
    /\ StudentRequirement
    /\ resp.ms # <<>>
    /\ resp.at > 0

\* ---- C8
\* The conditions each service's resolver knows.
ClosedSet(svc) ==
    IF svc = UserService THEN {"is-user"} ELSE {"is-student", "is-professor"}

\* The recorded resolver call was for a condition outside the service's set.
OutsideClosedSet(res) ==
    /\ res.called
    /\ res.words # <<>>
    /\ Head(res.words) \notin ClosedSet(res.svc)

\* C8: for every condition outside a service's closed set the resolver of the
\* service fails with "caveat not recognized" and returns no caveats, whatever
\* the identity and whatever the state of user.yaml and groups.yaml (unreadable
\* or incomplete included).
UnknownConditionNotRecognized ==
    OutsideClosedSet(resp.out.res) =>
        /\ resp.out.res.err = "caveat not recognized"
        /\ resp.out.res.cavs = <<>>

\* ---- C9
GroupOf(cond) == IF cond = "is-student" THEN "student" ELSE "professor"

KeyOf(cond) == IF cond = "is-student" THEN studentIDCaveat ELSE professorIDCaveat

IsMember(file, group, username) ==
    /\ file.readable
    /\ group \in DOMAIN file.groups
    /\ username \in file.groups[group]

NotAuthorized(cond) ==
    IF cond = "is-student"
    THEN {"not a student", "student group not found"}
    ELSE {"not a professor", "professor group not found"}

MembershipAsked(res) ==
    /\ res.called
    /\ res.svc = UniversityService
    /\ res.words # <<>>
    /\ Head(res.words) \in ClosedSet(UniversityService)

MembershipAnswer(res, cond, member) ==
    /\ res.err = "" <=> member
    /\ member =>
        res.cavs = <<DeclaredCaveat(KeyOf(cond), fresh),
                     TimeBeforeCaveat(resp.at + FiveMinutes)>>
    /\ ~member =>
        /\ res.cavs = <<>>
        /\ res.err # ""
        /\ groupsFile.readable => res.err \in NotAuthorized(cond)

\* C9: the university resolver for is-student / is-professor succeeds if and
\* only if the username is a member of the group student / professor of
\* groups.yaml.  On success it returns exactly two caveats: declared student-id
\* / professor-id with the id just generated, then time-before(now + 5
\* minutes).  When the username is not in the group, or the group is absent,
\* it returns a not-authorized error and no caveats.
MembershipDecides ==
    MembershipAsked(resp.out.res) =>
        MembershipAnswer(resp.out.res, Head(resp.out.res.words),
            IsMember(groupsFile, GroupOf(Head(resp.out.res.words)),
                     resp.out.res.user))

\* alice, a professor and no student, was answered for is-professor at a time
\* after 0.
ProfessorResolved ==
    /\ MembershipAsked(resp.out.res)
    /\ Head(resp.out.res.words) = "is-professor"
    /\ resp.out.res.user = "alice"
    /\ IsMember(groupsFile, "professor", "alice")
    /\ ~IsMember(groupsFile, "student", "alice")
    /\ resp.at > 0
    /\ Len(resp.out.res.cavs) = 2

\* ---- C10
ConfiguredIdentity == IF userFile.readable THEN userFile.username ELSE "bob"

IsUserAsked(res) ==
    /\ res.called
    /\ res.svc = UserService
    /\ res.words # <<>>
    /\ Head(res.words) = "is-user"

\* C10: the user service's resolver for is-user always succeeds, whatever the
\* state of groups.yaml (it looks up no group), and returns one declared
\* caveat, username = the identity user.yaml configures, "bob" when user.yaml
\* cannot be read; the value does not depend on the request.
IsUserDeclaresConfigured ==
    IsUserAsked(resp.out.res) =>
        /\ resp.out.res.err = ""
        /\ resp.out.res.cavs = <<DeclaredCaveat(usernameCaveat, ConfiguredIdentity)>>

\* is-user was answered with the default identity for a request naming alice,
\* user.yaml and groups.yaml both unreadable.
DefaultIdentityDeclared ==
    /\ IsUserAsked(resp.out.res)
    /\ ~userFile.readable
    /\ ~groupsFile.readable
    /\ resp.path = "alice"
    /\ resp.out.res.cavs = <<DeclaredCaveat(usernameCaveat, defaultUsername)>>

\* ---- C11
DischargeEndpoints == {"user-discharge", "university-discharge"}

ResolverFailed(r) ==
    /\ r.ep \in DischargeEndpoints
    /\ r.out.res.called
    /\ r.out.res.err # ""

\* C11: at both discharge endpoints, when the resolver returned an error for the
\* decoded condition the discharge fails: the response is a denial (500 at the
\* user service, 401 at the university service) and carries no macaroon.
ResolverErrorDenied ==
    ResolverFailed(resp) =>
        /\ resp.out.mac = <<>>
        /\ resp.out.kind \in {"internal-server-error", "unauthorized"}
        /\ resp.out.code \in {500, 401}

\* The university service refused the is-student discharge of a run because the
\* resolver did not find the caller among the students.
MembershipDischargeRefused ==
    /\ ResolverFailed(resp)
    /\ resp.ep = "university-discharge"
    /\ resp.out.res.err = "not a student"
    /\ resp.out.kind = "unauthorized"
    /\ run.denied

\* ---- C12
\* The resolver failed for a reason internal to the server: groups.yaml could
\* not be read.
InternalFailure(r) ==
    /\ r.out.res.called
    /\ r.out.res.err = "cannot read groups.yaml"

\* The resolver decided: the identity is not in the group, or the condition is
\* not one of this service.
PolicyOrRoutingOutcome(r) ==
    /\ r.out.res.called
    /\ r.out.res.err \in {"not a student", "student group not found",
                          "not a professor", "professor group not found",
                          "caveat not recognized"}

ServerErrorClass(r) == r.out.code >= 500

PolicyClass(r) == r.out.code \in {401, 403}

\* An internal error is answered in the server error class and in no policy
\* class.
InternalErrorIsServerError ==
    InternalFailure(resp) => (ServerErrorClass(resp) /\ ~PolicyClass(resp))

\* A policy or routing outcome is not answered in the server error class.
PolicyOutcomeIsNotServerError ==
    PolicyOrRoutingOutcome(resp) => ~ServerErrorClass(resp)

\* C12: error-class separation.  An internal error is answered in the server
\* error class and never in a policy class (unauthorized, forbidden); a policy
\* or routing outcome (not in the group, caveat not recognized) is never
\* answered in the server error class.
ErrorClassSeparation ==
    /\ InternalErrorIsServerError
    /\ PolicyOutcomeIsNotServerError

\* ---- C13
\* The machine-readable part of a response: the status code and the code field
\* of the body.
ResponseClass(out) == <<out.code, out.kind>>

\* What the university service's /discharge answers the caller of request r
\* when the resolver rejects on policy: an is-student caveat id, nobody among
\* the students.
PolicyRejection(r) ==
    universityDischargeId(store[UniversityService], fresh, r.at, r.out.user,
        [to |-> universityServiceLocation, key |-> 0, cond |-> <<"is-student">>],
        <<"is-student">>, EmptyGroupsFile).resp

NotRecognizedAt(r) ==
    /\ r.ep = "university-discharge"
    /\ r.out.res.called
    /\ r.out.res.err = "caveat not recognized"

\* C13: CaveatNotRecognized propagates distinctly.  The response of a discharge
\* endpoint whose resolver failed with "caveat not recognized" differs in status
\* code or code field from the response the endpoint gives when the resolver
\* rejects on policy (the identity is not in the group).
NotRecognizedDistinct ==
    NotRecognizedAt(resp) =>
        /\ PolicyRejection(resp).res.err = "not a student"
        /\ ResponseClass(resp.out) # ResponseClass(PolicyRejection(resp))

\* ---- C14
\* The body could not be parsed, or has no non-empty id field.
NoCaveatId(r) ==
    /\ r.ep \in DischargeEndpoints
    /\ ~r.body.parses \/ r.body.id = <<>>

BadRequestDenial(r) ==
    /\ r.out.code = 400
    /\ r.out.kind = "bad-request"
    /\ r.out.mac = <<>>

\* The caller of the university's /discharge was authenticated: checkUser
\* returned a username.
UniversityVerification(r) ==
    CheckRequest(store[UniversityService], r.ms, r.auth, "")

Authenticated(r) ==
    /\ UniversityVerification(r).verr = ""
    /\ usernameCaveat \in DOMAIN UniversityVerification(r).attrs

\* C14 (as stated): a discharge request whose body cannot be parsed or carries
\* no non-empty id is answered with a bad-request denial, the resolver is not
\* invoked and no discharge token is minted.
NoCaveatIdIsBadRequest ==
    NoCaveatId(resp) =>
        /\ BadRequestDenial(resp)
        /\ ~resp.out.res.called
        /\ resp.out.kind # "macaroon"

\* C14 (amended): such a request is answered with a bad-request denial at the
\* user service, and at the university service when the caller's credentials
\* verify and declare a username; a caller the university service does not
\* authenticate gets checkUser's answer (discharge-required with a requirement
\* token, or forbidden) whatever the body.  In every case the resolver is not
\* invoked and no discharge token is minted.
NoCaveatIdIsBadRequestOnceAuthenticated ==
    NoCaveatId(resp) =>
        /\ (resp.ep = "user-discharge" \/ Authenticated(resp)) =>
                BadRequestDenial(resp)
        /\ (resp.ep = "university-discharge" /\ ~Authenticated(resp)) =>
                resp.out.kind \in {"discharge-required", "forbidden"}
        /\ ~resp.out.res.called
        /\ resp.out.kind # "macaroon"

\* An authenticated caller of the university service's /discharge whose body
\* has no id was answered bad request.
BadRequestAfterAuthentication ==
    /\ NoCaveatId(resp)
    /\ resp.ep = "university-discharge"
    /\ Authenticated(resp)
    /\ BadRequestDenial(resp)

\* ---- C15
DischargeGranted(r) ==
    /\ r.ep \in DischargeEndpoints
    /\ r.out.kind = "macaroon"

\* The caveat id of the request recorded in r discharged once more, now, for
\* the same caller: while the response is on record neither the clock nor
\* user.yaml nor groups.yaml has changed since the first discharge.
DischargedAgain(r) ==
    IF r.ep = "user-discharge"
    THEN userDischarge([path |-> r.path, ms |-> r.ms, body |-> r.body], userFile)
    ELSE universityDischargeId(store[UniversityService], fresh, now, r.out.user,
            r.body.id[1], ResolverWords(r.body.id[1].cond), groupsFile).resp

\* The discharge in r completed the token set of the run.
CompletesTheRun(r) ==
    /\ run.pending = <<>>
    /\ run.got # <<>>
    /\ run.got[Len(run.got)] = Bind(run.tok[1], r.out.mac[1])

\* The verdict of the run's endpoint on the run's token set with discharge d
\* bound to the requirement token in the place of the last one obtained.
VerdictWith(d) ==
    CheckRequest(store[ServiceOf(run.ep)],
        <<run.tok[1]>> \o SubSeq(run.got, 1, Len(run.got) - 1)
            \o <<Bind(run.tok[1], d)>>,
        now, OperationOf(run.ep)).verr

TwoDischarges(r, again) ==
    /\ again.kind = "macaroon"
    /\ again.mac # r.out.mac
    /\ CompletesTheRun(r) =>
        VerdictWith(r.out.mac[1]) = VerdictWith(again.mac[1])

\* C15: discharge idempotence.  The same caveat id discharged twice with the
\* same condition and unchanged user.yaml and groups.yaml gives two different
\* discharge macaroons, and each of them bound to the requirement token
\* satisfies the verification of the endpoint; at the user service as at the
\* university service.
DischargeTwiceDiffers ==
    DischargeGranted(resp) => TwoDischarges(resp, DischargedAgain(resp))

\* The same for the membership discharges of the university service alone.
MembershipDischargeTwiceDiffers ==
    (DischargeGranted(resp) /\ resp.ep = "university-discharge") =>
        TwoDischarges(resp, DischargedAgain(resp))

\* The same for the user service, without the requirement that the two
\* macaroons differ.
IsUserDischargeTwiceVerifies ==
    (DischargeGranted(resp) /\ resp.ep = "user-discharge") =>
        /\ DischargedAgain(resp).mac = resp.out.mac
        /\ CompletesTheRun(resp) =>
                VerdictWith(resp.out.mac[1]) = VerdictWith(DischargedAgain(resp).mac[1])

\* ---- C16
\* The verifications the handlers ask of their bakery: the service and the
\* operation of CheckRequest.
Verifiers ==
    {<<TargetService, "">>, <<MeetupService, "student">>,
     <<MeetupService, "professor">>, <<UniversityService, "">>}

\* Token sets in the hands of the caller, and the one on record.
TokenSetsHeld == {run.tok \o run.got, cred.tok \o cred.dis, resp.ms}

EvaluationTimes == {0, now, MaxTime}

\* The verdict on token set ms is the same with the stores st and with the
\* stores su.
SameVerdicts(st, su, ms) ==
    \A v \in Verifiers : \A t \in EvaluationTimes :
        CheckRequest(st[v[1]], ms, t, v[2]) = CheckRequest(su[v[1]], ms, t, v[2])

\* Every root key in the stores st is in the stores su.
StoreKept(st, su) ==
    \A s \in Bakeries : \A k \in DOMAIN st[s] :
        k \in DOMAIN su[s] /\ su[s][k] = st[s][k]

\* C16 (as stated): verification is stateless.  No request changes state kept
\* by a handler (its configuration, the key ring and the root key store of its
\* bakery), and the verdict on a token set at a given time is the same before
\* and after any request.
VerificationStateless ==
    [][/\ peers' = peers
       /\ store' = store
       /\ \A ms \in TokenSetsHeld \cup {resp'.ms} : SameVerdicts(store, store', ms)]_vars

\* C16 (amended): a request changes state kept by a handler only by adding
\* the root key of a requirement token it mints to the store of its bakery; no
\* root key is changed or removed, the configuration is unchanged, and the
\* verdict on a token set at a given time is the same before and after any
\* request.
VerificationKeepsNoMemory ==
    [][/\ peers' = peers
       /\ StoreKept(store, store')
       /\ store' # store =>
            \A ms \in TokenSetsHeld \cup {resp'.ms} : SameVerdicts(store, store', ms)]_vars

\* The university service verified a caller's credentials after it had
\* handled requests that made it mint twice.
VerifiedAfterOtherRequests ==
    /\ resp.ep = "university-discharge"
    /\ resp.ms # <<>>
    /\ UniversityVerification(resp).verr = ""
    /\ Cardinality(DOMAIN store[UniversityService]) >= 2

\* ---- C17
\* A response without the values the random source gave it: the id and keys of
\* a minted requirement token, the uuid of a declared student-id/professor-id.
CaveatShape(cav) ==
    IF IsThirdParty(cav) THEN <<cav.loc, cav.id.to, cav.id.cond>>
    ELSE IF Len(cav.id) = 3 /\ cav.id[1] = "declared"
            /\ cav.id[2] \in {studentIDCaveat, professorIDCaveat}
    THEN <<"declared", cav.id[2]>>
    ELSE cav.id

MacaroonShape(m) ==
    [loc |-> m.loc, cavs |-> [j \in 1..Len(m.cavs) |-> CaveatShape(m.cavs[j])]]

OutcomeOf(out) ==
    [code |-> out.code, kind |-> out.kind, verr |-> out.verr, msg |-> out.msg,
     user |-> out.user,
     declared |-> DOMAIN out.attrs,
     username |-> Get(out.attrs, usernameCaveat),
     macs |-> [i \in 1..Len(out.mac) |-> MacaroonShape(out.mac[i])],
     discharged |-> IF out.kind = "macaroon" THEN <<out.mac[1].id>> ELSE <<>>,
     resolver |-> [called |-> out.res.called, user |-> out.res.user,
                   words |-> out.res.words, err |-> out.res.err]]

\* The response to request req handled alone, from the state the concurrent
\* requests arrived in.
HandledAlone(req) ==
    IF req.ep \in Endpoints
    THEN helloUser(req.ep, peers[ServiceOf(req.ep)], EarlierStore[ServiceOf(req.ep)],
                   EarlierFresh, now, req.path, req.ms).resp
    ELSE (CHOOSE out \in {universityDischargeAs(u, EarlierStore[UniversityService],
                                EarlierFresh, now, req, groupsFile) :
                u \in {universityCheckUser(peers[UniversityService],
                            EarlierStore[UniversityService], EarlierFresh, now,
                            req.ms)}} : TRUE).resp

\* C17: concurrent requests are independent.  In every interleaving of the
\* handler steps of two requests handled at the same time, a request that has
\* been answered got the outcome it gets when handled alone, and a request not
\* yet answered can take its next step whatever the position of the other: no
\* handler waits for a lock.
ConcurrentRequestsIndependent ==
    \A p \in 1..Len(inflight) :
        /\ inflight[p].pc = "done" =>
                OutcomeOf(inflight[p].out) = OutcomeOf(HandledAlone(inflight[p].req))
        /\ inflight[p].pc # "done" => ENABLED HandlerStep(p)

\* Both requests are answered: the complete student token set with the payload,
\* the other, handled by the same service at the same time, with a requirement
\* token minted for it.
VerifiedAmidstMint ==
    /\ Len(inflight) = 2
    /\ \E p, q \in 1..2 :
        /\ p # q
        /\ inflight[p].pc = "done"
        /\ inflight[p].req.ms = EarlierStudentSet
        /\ inflight[p].out.kind = "payload"
        /\ inflight[q].pc = "done"
        /\ inflight[q].req.ep = "student"
        /\ inflight[q].out.kind = "discharge-required"

\* ---- C18
\* Request r asked the university service for a membership discharge for an
\* identity that groups.yaml, as it is now, does not list in the group.
AskedAfterRemoval(r) ==
    /\ r.ep = "university-discharge"
    /\ r.out.res.called
    /\ r.out.res.words \in {<<"is-student">>, <<"is-professor">>}
    /\ ~IsMember(groupsFile, GroupOf(r.out.res.words[1]), r.out.res.user)

\* The membership discharges among the macaroons of a token set.
IsMembershipDischarge(m) ==
    /\ m.loc = ""
    /\ DeclaresKey(m.cavs, studentIDCaveat) \/ DeclaresKey(m.cavs, professorIDCaveat)

MembershipDischarges(ms) ==
    {i \in 1..Len(ms) : IsMembershipDischarge(ms[i])}

\* Request r presented a token set with a membership discharge, good but for
\* the time bounds.
PresentedMembership(r) ==
    /\ OtherwiseSatisfied(r)
    /\ MembershipDischarges(r.ms) # {}

\* Every membership discharge of the token set has its own bound ahead of t.
OwnBoundsAfter(ms, t) ==
    \A i \in MembershipDischarges(ms) : AllBoundsAfter(<<ms[i]>>, t)

\* A membership discharge asked for an identity that is not (no longer) in the
\* group is denied.
DeniedAfterRemoval ==
    AskedAfterRemoval(resp) =>
        /\ resp.out.kind = "unauthorized"
        /\ resp.out.mac = <<>>

\* C18 (as stated): group data is loaded fresh on each discharge call.  Once
\* an identity has been removed from a group every later membership discharge
\* request for it is denied, while a discharge issued before the removal stays
\* acceptable to the resource endpoint until its own time-before bound (issue
\* time + 5 minutes) and no longer.
DischargeGoodUntilOwnBound ==
    /\ DeniedAfterRemoval
    /\ PresentedMembership(resp) =>
        /\ OwnBoundsAfter(resp.ms, resp.at) => resp.out.verr = ""
        /\ ~OwnBoundsAfter(resp.ms, resp.at) =>
            /\ resp.out.verr = "macaroon has expired"
            /\ resp.out.kind # "payload"

\* C18: group data is read on each discharge call.  A membership discharge
\* asked for an identity that is not (no longer) in the group is denied; a
\* membership discharge issued earlier is accepted by the resource endpoint,
\* whatever groups.yaml says by then, exactly as long as every time-before
\* bound of the token set it is presented in is still ahead: the bound of the
\* requirement token (mint time + 5 minutes) as well as its own (issue time +
\* 5 minutes).  Once one of them is reached the set is rejected as expired.
GroupsReadPerDischarge ==
    /\ DeniedAfterRemoval
    /\ PresentedMembership(resp) =>
        /\ AllBoundsAfter(resp.ms, resp.at) => resp.out.verr = ""
        /\ ~AllBoundsAfter(resp.ms, resp.at) =>
            /\ resp.out.verr = "macaroon has expired"
            /\ resp.out.kind # "payload"

\* bob was removed from the students after his is-student discharge was issued,
\* and the student endpoint returned the payload for the token set.
PayloadAfterRemoval ==
    /\ resp.ep = "student"
    /\ resp.out.kind = "payload"
    /\ resp.out.user = "bob"
    /\ PresentedMembership(resp)
    /\ ~IsMember(groupsFile, "student", "bob")

\* ---- C19
\* The requirement token the university service asks its callers to discharge:
\* is-user at the user service, declaring the username, and a time bound.
IsUserRequirement(m, t) ==
    /\ m.loc = UniversityService
    /\ Len(m.cavs) = 2
    /\ m.cavs[1].loc = userServiceLocation
    /\ m.cavs[1].id.cond = <<"need-declared", usernameCaveat, "is-user">>
    /\ m.cavs[2] = TimeBeforeCaveat(t + FiveMinutes)

VerifiedWithoutUsername(r) ==
    /\ UniversityVerification(r).verr = ""
    /\ usernameCaveat \notin DOMAIN UniversityVerification(r).attrs

\* checkUser, handed a verification that succeeded and declares nothing,
\* answers forbidden and mints nothing.  (No token set the services of the demo
\* issue verifies without declaring a username.)
ForbiddenWithoutUsername ==
    universityCheckUserResult(NoCheck, store[UniversityService], fresh,
        NewMacaroon(UniversityService, peers[UniversityService],
                    store[UniversityService], fresh, universityCaveats(now)))
        = Unchanged(store[UniversityService], fresh, Response(403, "forbidden"))

\* C19: the university service's /discharge authenticates before it
\* discharges.  The resolver is called and a discharge is minted only for a
\* request whose own token set verified and declares a username, and the
\* resolver decides for that declared username; a request without credentials
\* is answered discharge-required with a requirement token for is-user; a
\* verified request that declares no username is answered forbidden.
AuthenticatesBeforeDischarge ==
    resp.ep = "university-discharge" =>
        /\ (resp.out.res.called \/ resp.out.kind = "macaroon") =>
            /\ Authenticated(resp)
            /\ resp.out.res.user = UniversityVerification(resp).attrs[usernameCaveat]
            /\ resp.out.user = resp.out.res.user
        /\ resp.ms = <<>> =>
            /\ resp.out.kind = "discharge-required"
            /\ Len(resp.out.mac) = 1
            /\ IsUserRequirement(resp.out.mac[1], resp.at)
            /\ ~resp.out.res.called
        /\ VerifiedWithoutUsername(resp) =>
            /\ resp.out.kind = "forbidden"
            /\ ~resp.out.res.called
        /\ ForbiddenWithoutUsername

\* alice, authenticated by the university service through her is-user
\* discharge, was discharged as a professor.
DischargedAsAuthenticated ==
    /\ resp.ep = "university-discharge"
    /\ resp.out.kind = "macaroon"
    /\ resp.out.res.called
    /\ Authenticated(resp)
    /\ resp.out.res.user = "alice"
    /\ resp.out.res.words = <<"is-professor">>

\* ---- C20
\* Token set ms holds a discharge declaring a student-id.
HoldsStudentDischarge(ms) ==
    \E i \in 2..Len(ms) : ms[i].loc = "" /\ DeclaresKey(ms[i].cavs, studentIDCaveat)

\* Token set ms is built on a requirement token of the professor endpoint.
OnProfessorRequirement(ms) ==
    /\ ms # <<>>
    /\ Len(ms[1].cavs) >= 1
    /\ ms[1].cavs[1] = AllowCaveat(<<"student", "professor">>)

\* C20: every token set for which the student endpoint returns the payload
\* holds an is-student discharge (it declares student-id); a token set built on
\* a requirement token of the professor endpoint is not accepted by the student
\* endpoint.
StudentPayloadNeedsStudentId ==
    (resp.ep = "student" /\ resp.out.kind = "payload") =>
        /\ HoldsStudentDischarge(resp.ms)
        /\ studentIDCaveat \in DOMAIN resp.out.attrs
        /\ ~OnProfessorRequirement(resp.ms)

\* ---- C21
\* Token set ms is built on a requirement token of the student endpoint.
OnStudentRequirement(ms) ==
    /\ ms # <<>>
    /\ Len(ms[1].cavs) >= 2
    /\ ms[1].cavs[1] = AllowCaveat(<<"student">>)
    /\ ms[1].cavs[2] = DenyCaveat(<<"professor">>)

\* What checkProfessor's CheckRequest makes, now, of the run's requirement
\* token presented with the discharges `sel` of those obtained, doctored by
\* `tamper` (a forged discharge declares the username u).
ProfessorVerdict(sel, tamper, u) ==
    CheckRequest(store[MeetupService], Present(run.tok, run.got, sel, tamper, u),
                 now, "professor").verr

\* The recorded request went to the professor endpoint with a token set the
\* student endpoint accepts at the same time.
StudentSetAtProfessor ==
    /\ resp.ep = "professor"
    /\ OnStudentRequirement(resp.ms)
    /\ VerificationAt([resp EXCEPT !.ep = "student"], store, resp.at).verr = ""

\* C21: a token set built on a requirement token of the student endpoint (allow
\* student, deny professor) is never accepted by the professor endpoint: not
\* the recorded request, whatever its path username, and at any moment not the
\* run's student token with any selection of the discharges obtained, doctored
\* or not: the verification checkProfessor asks for fails, so the handler
\* never reaches its payload branch.
StudentTokenRefusedByProfessor ==
    /\ (resp.ep = "professor" /\ OnStudentRequirement(resp.ms)) =>
            resp.out.kind # "payload"
    /\ OnStudentRequirement(run.tok) =>
            \A sel \in Selections(Len(run.got)), tamper \in Tampers, u \in Users :
                ProfessorVerdict(sel, tamper, u) # ""

\* C21 witness: a token set that the student endpoint accepts, with both
\* discharges bound, was presented to the professor endpoint for the declared
\* username and answered with a new requirement.
StudentSetRefusedByProfessor ==
    /\ StudentSetAtProfessor
    /\ Len(resp.ms) = 3
    /\ resp.path = Get(VerificationAt([resp EXCEPT !.ep = "student"], store,
                                      resp.at).attrs, usernameCaveat)
    /\ resp.out.kind = "discharge-required"

====
